---------------------------- MODULE Spec2Model ----------------------------
(***************************************************************************)
(* Chicago Oracle: the address-enrichment service (src/lib/addressService) *)
(* as a state machine.  A call of getEnhancedAddress issues two provider   *)
(* lookups (Nominatim, BigDataCloud); each lookup is a fetch followed by a *)
(* JSON parse, both of which may fail; the call joins on both with         *)
(* Promise.allSettled and selects a result by fixed priority.              *)
(*                                                                         *)
(* JavaScript values: a string is a TLA+ string; `undefined` is the        *)
(* sentinel Undefined and `null` in a string-or-null slot the sentinel     *)
(* JsNull (neither is a string any provider sends); an object is a record  *)
(* whose DOMAIN is its set of keys; a null object reference is Null.       *)
(***************************************************************************)
EXTENDS Integers, Sequences, FiniteSets, TLC

(***************************************************************************)
(* Bounds                                                                  *)
(***************************************************************************)
MaxCalls == 2

Calls == 1..MaxCalls

Coordinates == {"41.8781,-87.6298", "41.8827,-87.6233"}

SameCoordinate == "41.8781,-87.6298"

(***************************************************************************)
(* JavaScript values                                                       *)
(***************************************************************************)
Undefined == "<undefined>"

JsNull == "<null>"

Null == [isNull |-> TRUE]

\* JavaScript truthiness of an optional string: undefined, null and "" are falsy.
Truthy(v) == v /= Undefined /\ v /= JsNull /\ v /= ""

\* a || b
Or(a, b) == IF Truthy(a) THEN a ELSE b

\* obj.key, undefined when the object has no such key
Get(obj, key) == IF key \in DOMAIN obj THEN obj[key] ELSE Undefined

\* Array.prototype.join(', ')
RECURSIVE Join(_)
Join(parts) ==
    IF parts = <<>> THEN ""
    ELSE IF Len(parts) = 1 THEN parts[1]
    ELSE parts[1] \o ", " \o Join(Tail(parts))

\* A settled promise
Fulfilled(v) == [status |-> "fulfilled", value |-> v]

Rejected(e) == [status |-> "rejected", reason |-> e]

Pending == [status |-> "pending"]

\* The completion of a try block: a returned value or a thrown error
Returned(v) == [threw |-> FALSE, value |-> v]

Thrown(e) == [threw |-> TRUE, error |-> e]

(***************************************************************************)
(* Provider responses.  A lookup ends in one of: the fetch rejecting (a    *)
(* network error), a response whose status is not OK, a response whose     *)
(* body does not parse, or a parsed body `data`.                           *)
(***************************************************************************)
NetworkError == [kind |-> "network_error"]

HttpError == [kind |-> "http_error"]

ParseError == [kind |-> "parse_error"]

Body(data) == [kind |-> "json", data |-> data]

\* What the fetch of a lookup can settle to: rejected, or a response (OK or not)
FetchOutcomes == {"reject", "not_ok", "ok"}

(***************************************************************************)
(* addressService.ts                                                       *)
(***************************************************************************)
\* address.road || address.pedestrian || address.footway
StreetOf(address) ==
    Or(Or(Get(address, "road"), Get(address, "pedestrian")), Get(address, "footway"))

\* Mutant: the suburb is preferred to the neighbourhood.
NeighbourhoodOfSuburbFirst(address) ==
    Or(Get(address, "suburb"), Get(address, "neighbourhood"))

\* address.neighbourhood || address.suburb
NeighbourhoodOf(address) == Or(Get(address, "neighbourhood"), Get(address, "suburb"))

\* address.city || address.town || address.village
CityOf(address) ==
    Or(Or(Get(address, "city"), Get(address, "town")), Get(address, "village"))

\* Mutant: city is pushed before the neighbourhood.
formatNominatimAddressCityFirst(address) ==
    LET street == IF Truthy(Get(address, "house_number")) /\ Truthy(StreetOf(address))
                    THEN <<Get(address, "house_number") \o " " \o StreetOf(address)>>
                  ELSE IF Truthy(StreetOf(address)) THEN <<StreetOf(address)>>
                  ELSE <<>>
        hood   == IF Truthy(NeighbourhoodOf(address))
                    THEN <<NeighbourhoodOf(address)>> ELSE <<>>
        city   == IF Truthy(CityOf(address)) THEN <<CityOf(address)>> ELSE <<>>
        state  == IF Truthy(Get(address, "state")) THEN <<Get(address, "state")>> ELSE <<>>
        country == IF Truthy(Get(address, "country"))
                     THEN <<Get(address, "country")>> ELSE <<>>
    IN  Join(street \o city \o hood \o state \o country)

formatNominatimAddress(address) ==
    LET street == IF Truthy(Get(address, "house_number")) /\ Truthy(StreetOf(address))
                    THEN <<Get(address, "house_number") \o " " \o StreetOf(address)>>
                  ELSE IF Truthy(StreetOf(address)) THEN <<StreetOf(address)>>
                  ELSE <<>>
        hood   == IF Truthy(NeighbourhoodOf(address))
                    THEN <<NeighbourhoodOf(address)>> ELSE <<>>
        city   == IF Truthy(CityOf(address)) THEN <<CityOf(address)>> ELSE <<>>
        state  == IF Truthy(Get(address, "state")) THEN <<Get(address, "state")>> ELSE <<>>
        country == IF Truthy(Get(address, "country"))
                     THEN <<Get(address, "country")>> ELSE <<>>
    IN  Join(street \o hood \o city \o state \o country)

\* Mutant: every part is pushed, empty or not.
formatBigDataCloudAddressUnfiltered(data) ==
    Join(<<Get(data, "locality"), Get(data, "principalSubdivision"),
           Get(data, "countryName")>>)

formatBigDataCloudAddress(data) ==
    LET locality == IF Truthy(Get(data, "locality")) THEN <<Get(data, "locality")>> ELSE <<>>
        subdivision == IF Truthy(Get(data, "principalSubdivision"))
                         THEN <<Get(data, "principalSubdivision")>> ELSE <<>>
        country == IF Truthy(Get(data, "countryName"))
                     THEN <<Get(data, "countryName")>> ELSE <<>>
    IN  Join(locality \o subdivision \o country)

\* Mutant: an estimate (in metres, as its decimal string) when there is street
\* information.
calculateDistanceFromStreetEstimated(address) ==
    IF ~Truthy(Get(address, "road")) /\ ~Truthy(Get(address, "pedestrian"))
          /\ ~Truthy(Get(address, "footway"))
      THEN JsNull
      ELSE "25"

\* Both branches of the function return null.
calculateDistanceFromStreet(address) ==
    IF ~Truthy(Get(address, "road")) /\ ~Truthy(Get(address, "pedestrian"))
          /\ ~Truthy(Get(address, "footway"))
      THEN JsNull
      ELSE JsNull

\* The object literal getNominatimAddress returns for data.address
NominatimComponents(address) ==
    [streetNumber       |-> Get(address, "house_number"),
     streetName         |-> StreetOf(address),
     neighborhood       |-> NeighbourhoodOf(address),
     city               |-> CityOf(address),
     state              |-> Get(address, "state"),
     country            |-> Get(address, "country"),
     postalCode         |-> Get(address, "postcode"),
     formattedAddress   |-> formatNominatimAddress(address),
     distanceFromStreet |-> calculateDistanceFromStreet(address)]

\* The object literal getBigDataCloudAddress returns for data
BigDataCloudComponents(data) ==
    [city               |-> Get(data, "locality"),
     state              |-> Get(data, "principalSubdivision"),
     country            |-> Get(data, "countryName"),
     formattedAddress   |-> formatBigDataCloudAddress(data),
     distanceFromStreet |-> JsNull]

\* !data || !data.address : data is null, or has no (or a null) address
NoNominatimAddress(data) ==
    data = Null \/ "address" \notin DOMAIN data \/ data.address = Null

\* The try block of getNominatimAddress, run on the lookup's response
NominatimTry(resp) ==
    IF resp.kind = "network_error" THEN Thrown("fetch failed")
    ELSE IF resp.kind = "http_error" THEN Thrown("Nominatim request failed")
    ELSE IF resp.kind = "parse_error" THEN Thrown("SyntaxError")
    ELSE IF NoNominatimAddress(resp.data) THEN Returned(Null)
    ELSE Returned(NominatimComponents(resp.data.address))

\* Mutant: no response.ok check, so the body of an error response is mapped.
BigDataCloudTryNoOkCheck(resp) ==
    IF resp.kind = "network_error" THEN Thrown("fetch failed")
    ELSE IF resp.kind = "http_error"
      THEN Returned(BigDataCloudComponents([error |-> "Too Many Requests"]))
    ELSE IF resp.kind = "parse_error" THEN Thrown("SyntaxError")
    ELSE IF resp.data = Null THEN Thrown("TypeError")
    ELSE Returned(BigDataCloudComponents(resp.data))

\* The try block of getBigDataCloudAddress; reading data.locality of a null
\* body throws a TypeError.
BigDataCloudTry(resp) ==
    IF resp.kind = "network_error" THEN Thrown("fetch failed")
    ELSE IF resp.kind = "http_error" THEN Thrown("BigDataCloud request failed")
    ELSE IF resp.kind = "parse_error" THEN Thrown("SyntaxError")
    ELSE IF resp.data = Null THEN Thrown("TypeError")
    ELSE Returned(BigDataCloudComponents(resp.data))

\* try { ... } catch (error) { console.warn(...); return null; }
CatchReturnNull(completion) ==
    IF completion.threw THEN Fulfilled(Null) ELSE Fulfilled(completion.value)

\* The promise getNominatimAddress returns, once its lookup ended in resp
getNominatimAddress(resp) == CatchReturnNull(NominatimTry(resp))

\* The promise getBigDataCloudAddress returns, once its lookup ended in resp
getBigDataCloudAddress(resp) == CatchReturnNull(BigDataCloudTry(resp))

\* Mutant: a first-wins join, ready as soon as one input has settled.
AnySettledReady(promises) == \E i \in DOMAIN promises : promises[i].status /= "pending"

\* Promise.allSettled resolves once no input promise is pending ...
AllSettledReady(promises) == \A i \in DOMAIN promises : promises[i].status /= "pending"

\* Mutant: the outcomes in the order the inputs settled.
AllSettledByCompletion(promises, order) == [i \in DOMAIN order |-> promises[order[i]]]

\* ... to the array of their outcomes in input order; order is the order in
\* which the inputs settled, which the join ignores.
AllSettled(promises, order) == promises

\* Mutant: a city the primary lacks is filled in from the secondary.
EnhancedTryMerged(results) ==
    LET nominatimResult == results[1]
        bigDataCloudResult == results[2]
    IN  IF nominatimResult.status = "fulfilled" /\ nominatimResult.value /= Null
          THEN IF ~Truthy(nominatimResult.value.city)
                    /\ bigDataCloudResult.status = "fulfilled"
                    /\ bigDataCloudResult.value /= Null
                 THEN Returned([nominatimResult.value EXCEPT
                                   !.city = bigDataCloudResult.value.city])
                 ELSE Returned(nominatimResult.value)
        ELSE IF bigDataCloudResult.status = "fulfilled" /\ bigDataCloudResult.value /= Null
          THEN Returned(bigDataCloudResult.value)
        ELSE Returned(Null)

\* The try block of getEnhancedAddress on the array allSettled resolved to
EnhancedTry(results) ==
    LET nominatimResult == results[1]
        bigDataCloudResult == results[2]
    IN  IF nominatimResult.status = "fulfilled" /\ nominatimResult.value /= Null
          THEN Returned(nominatimResult.value)
        ELSE IF bigDataCloudResult.status = "fulfilled" /\ bigDataCloudResult.value /= Null
          THEN Returned(bigDataCloudResult.value)
        ELSE Returned(Null)

\* Mutant: the call rejects when no provider has a result.
getEnhancedAddressOrReject(results) ==
    IF EnhancedTry(results).value = Null
      THEN Rejected("No address found")
      ELSE Fulfilled(EnhancedTry(results).value)

\* The promise getEnhancedAddress returns
getEnhancedAddress(results) == CatchReturnNull(EnhancedTry(results))

(***************************************************************************)
(* Response bodies the providers are modelled to send                      *)
(***************************************************************************)
\* Every Nominatim address object over these field values; a key holding
\* Undefined stands for a key the object does not have.
Addresses ==
    [house_number  : {Undefined, "233"},
     road          : {Undefined, "", "S Wacker Dr"},
     pedestrian    : {Undefined, "Riverwalk"},
     footway       : {Undefined, "Lakefront Trail"},
     neighbourhood : {Undefined, "Loop"},
     suburb        : {Undefined, "Near West Side"},
     city          : {Undefined, "Chicago"},
     town          : {Undefined, "Cicero"},
     village       : {Undefined, "Oak Park"},
     state         : {Undefined, "Illinois"},
     country       : {Undefined, "USA"},
     postcode      : {Undefined, "60606"}]

\* Parsed Nominatim bodies: JSON null, an error object without an address
\* key, an object whose address is null, or an object with an address
NominatimData ==
    {Null, [error |-> "Unable to geocode"], [address |-> Null]}
        \cup {[address |-> a] : a \in Addresses}

\* Parsed BigDataCloud bodies: JSON null, or an object with any of the three fields
BigDataCloudData ==
    {Null} \cup [locality             : {Undefined, "", "Chicago"},
                 principalSubdivision : {Undefined, "Illinois"},
                 countryName          : {Undefined, "United States of America (the)"}]

WackerAddress ==
    [house_number |-> "233", road |-> "S Wacker Dr", pedestrian |-> Undefined,
     footway |-> Undefined, neighbourhood |-> Undefined, suburb |-> Undefined,
     city |-> "Chicago", town |-> Undefined, village |-> Undefined,
     state |-> "Illinois", country |-> "USA", postcode |-> Undefined]

CountryOnlyAddress ==
    [house_number |-> Undefined, road |-> Undefined, pedestrian |-> Undefined,
     footway |-> Undefined, neighbourhood |-> Undefined, suburb |-> Undefined,
     city |-> Undefined, town |-> Undefined, village |-> Undefined,
     state |-> Undefined, country |-> "USA", postcode |-> Undefined]

\* The bodies drawn when several calls run concurrently
FewNominatimData == {[error |-> "Unable to geocode"], [address |-> CountryOnlyAddress]}

FewBigDataCloudData ==
    {[locality |-> "Chicago", principalSubdivision |-> "Illinois",
      countryName |-> "United States of America (the)"]}

(***************************************************************************)
(* State                                                                   *)
(***************************************************************************)
VARIABLES
    pc,            \* pc[c]: "idle", "awaiting" (suspended in allSettled), "returned"
    coord,         \* coord[c]: the (lat,lng) call c was made with
    nominatim,     \* nominatim[c]: the stage of call c's Nominatim lookup, and its response
    bigDataCloud,  \* bigDataCloud[c]: likewise for BigDataCloud
    settleOrder,   \* settleOrder[c]: the input positions (1, 2) in the order they settled
    outcome,       \* outcome[c]: the promise call c returned
    fetches        \* fetches[p][xy]: requests issued so far to provider p for xy

\* The arguments and results of the display helpers (getDisplayAddress,
\* getDescriptiveLocation), which run on a stored address, apart from any call
VARIABLES
    components,           \* the enhancedAddress argument (Null for null)
    fallback,             \* the fallbackAddress argument
    displayAddress,       \* what getDisplayAddress returned, once it ran
    descriptiveLocation   \* what getDescriptiveLocation returned, once it ran

textVars == <<components, fallback, displayAddress, descriptiveLocation>>

\* The image preprocessing of the upload form (processImageForDisplay)
VARIABLES
    picture,     \* the decoded image: its width and height in pixels
    processed    \* the promise of processImageForDisplay, with what was drawn

cropVars == <<picture, processed>>

\* The images collection and a reader paging through it with getImages
VARIABLES
    images,       \* the documents of the collection, by id
    pageSize,     \* the reader's page size
    cursor,       \* the lastDoc the reader passes next (NoDoc for undefined)
    pages,        \* the calls that returned: the cursor passed and the result
    fetched,      \* the promise of the reader's latest call
    migrations    \* the ids migrateImageEnhancedAddress was started for

pageVars == <<images, pageSize, cursor, pages, fetched, migrations>>

\* The home page's feed (the Home component)
VARIABLES
    home,          \* its state: images, loading, initialLoading, lastDoc, hasMore
    observer,      \* the loading, initialLoading, hasMore, lastDoc the callback of
                   \* the installed IntersectionObserver closed over
    initialLoad,   \* the getImages(10) of the mount effect: "pending" or "done"
    inFlight,      \* inFlight[c]: the pagination calls getImages(10, c) not yet back
    received       \* how the feed's latest getImages call to settle settled

feedVars == <<home, observer, initialLoad, inFlight, received>>

\* The image service's two stores, the call a client has made of the service,
\* and the migrations the loads have started
VARIABLES
    db,           \* the documents of the images collection (Firestore), by id
    bucket,       \* the paths of the objects in the storage bucket
    named,        \* the document ids given out so far
    call,         \* the client's call in progress: its operation, its arguments,
                  \* the await it is suspended in and its locals
    returned,     \* the promise of the client's latest call
    migrating,    \* the calls of migrateImageEnhancedAddress not yet settled
    migrated      \* the promise of the latest such call to settle

storeVars == <<db, bucket, named, call, returned, migrating, migrated>>

\* The upload form (the ImageUpload component)
VARIABLES
    form,         \* its state: file, processedFile, title, location,
                  \* enhancedAddress, loading, locationLoading, preview
    lookups,      \* the handleFileSelect and handleGetLocation calls suspended
                  \* in an await, each with the await and its locals
    reading,      \* the file the FileReader is reading for the preview
    submitting,   \* the uploadData of the handleSubmit suspended in
                  \* uploadImage(uploadData)
    uploaded      \* the promise of the form's latest uploadImage call

formVars == <<form, lookups, reading, submitting, uploaded>>

\* The host's console and the log displays (the ConsoleLogDisplay component)
VARIABLES
    console,      \* the function now installed as each of console.log, warn,
                  \* error and info
    displays,     \* the displays rendered so far, in the order of their mounting:
                  \* whether still mounted, the original* its effect captured,
                  \* its logs
    written,      \* what the host's own console methods were called with
    ran           \* the function bodies that ran in the latest console call,
                  \* in the order they finished their part

consoleVars == <<console, displays, written, ran>>

\* The parts of the application beside the address service's consumers
laterVars == <<storeVars, formVars, consoleVars>>

\* What the address lookups leave alone
elsewhere == <<textVars, cropVars, pageVars, feedVars, laterVars>>

vars == <<pc, coord, nominatim, bigDataCloud, settleOrder, outcome, fetches, elsewhere>>

Providers == {"nominatim", "bigdatacloud"}

NotIssued == [stage |-> "none"]

Fetching == [stage |-> "fetch"]

Parsing == [stage |-> "json"]

Settled(resp) == [stage |-> "settled", resp |-> resp]

\* The promise of a lookup function, given the stage its lookup is in
NominatimPromise(lookup) ==
    IF lookup.stage = "settled" THEN getNominatimAddress(lookup.resp) ELSE Pending

BigDataCloudPromise(lookup) ==
    IF lookup.stage = "settled" THEN getBigDataCloudAddress(lookup.resp) ELSE Pending

\* The array handed to Promise.allSettled by call c
Promises(c) == <<NominatimPromise(nominatim[c]), BigDataCloudPromise(bigDataCloud[c])>>

\* No call of getEnhancedAddress has been made
NoCalls ==
    /\ pc = [c \in Calls |-> "idle"]
    /\ coord = [c \in Calls |-> "none"]
    /\ nominatim = [c \in Calls |-> NotIssued]
    /\ bigDataCloud = [c \in Calls |-> NotIssued]
    /\ settleOrder = [c \in Calls |-> <<>>]
    /\ outcome = [c \in Calls |-> Pending]
    /\ fetches = [p \in Providers |-> [xy \in Coordinates |-> 0]]

NotRun == "<not run>"

\* No display helper has been given anything
NoText ==
    /\ components = Null
    /\ fallback = Undefined
    /\ displayAddress = NotRun
    /\ descriptiveLocation = NotRun

\* No image has been chosen
NoPicture ==
    /\ picture = [width |-> 1, height |-> 1]
    /\ processed = Pending

\* lastDoc undefined
NoDoc == 0

\* No reader, an empty collection
NoReader ==
    /\ images = <<>>
    /\ pageSize = 1
    /\ cursor = NoDoc
    /\ pages = <<>>
    /\ fetched = Pending
    /\ migrations = {}

\* The ids the feed's images can have
FeedIds == {"a", "b", "c"}

\* What lastDoc can hold
Cursors == FeedIds \cup {Undefined}

\* The dependencies of the scroll effect, which its callback closes over
Deps(state) ==
    [loading |-> state.loading, initialLoading |-> state.initialLoading,
     hasMore |-> state.hasMore, lastDoc |-> state.lastDoc]

\* Home as mounted: the useState initial values, loadImages() called, the
\* observer installed by the first run of the scroll effect
Mounted ==
    /\ home = [images |-> <<>>, loading |-> FALSE, initialLoading |-> TRUE,
               lastDoc |-> Undefined, hasMore |-> TRUE]
    /\ observer = Deps(home)
    /\ initialLoad = "pending"
    /\ inFlight = [c \in Cursors |-> 0]
    /\ received = Pending

\* No call of the image service
NoCall == [op |-> "none"]

\* Empty stores, the service not called
NoStore ==
    /\ db = <<>>
    /\ bucket = {}
    /\ named = {}
    /\ call = NoCall
    /\ returned = Pending
    /\ migrating = <<>>
    /\ migrated = Pending

\* The form as mounted: the useState initial values
Blank ==
    [file |-> JsNull, processedFile |-> Null, title |-> "", location |-> Null,
     enhancedAddress |-> Null, loading |-> FALSE, locationLoading |-> FALSE,
     preview |-> JsNull]

NoForm ==
    /\ form = Blank
    /\ lookups = <<>>
    /\ reading = Null
    /\ submitting = Null
    /\ uploaded = Pending

\* The four console methods the display overrides
Levels == {"log", "warn", "error", "info"}

\* A function installed as a console method is the host's own method or a
\* closure of some display's effect over the function it captured as
\* original*, which again is either: a function is written as the list of
\* the displays whose closures wrap the host's method, outermost first.
HostMethod == <<>>

\* No display rendered, the console the host's own
NoDisplay ==
    /\ console = [level \in Levels |-> HostMethod]
    /\ displays = <<>>
    /\ written = <<>>
    /\ ran = <<>>

\* The rest of the application at rest
Rest == NoStore /\ NoForm /\ NoDisplay

Init == NoCalls /\ NoText /\ NoPicture /\ NoReader /\ Mounted /\ Rest

\* getEnhancedAddress(lat, lng) up to its await: both lookup functions run to
\* their first await (the fetch is issued), then the call suspends in allSettled.
Call(c, xy) ==
    /\ pc[c] = "idle"
    /\ \A d \in Calls : d < c => pc[d] /= "idle"
    /\ pc' = [pc EXCEPT ![c] = "awaiting"]
    /\ coord' = [coord EXCEPT ![c] = xy]
    /\ nominatim' = [nominatim EXCEPT ![c] = Fetching]
    /\ bigDataCloud' = [bigDataCloud EXCEPT ![c] = Fetching]
    /\ fetches' = [p \in Providers |-> [fetches[p] EXCEPT ![xy] = @ + 1]]
    /\ UNCHANGED <<settleOrder, outcome, elsewhere>>

\* Mutant: a rejected fetch is issued again.
NominatimFetchedRetrying(c) ==
    /\ nominatim[c].stage = "fetch"
    /\ \E o \in FetchOutcomes :
        /\ nominatim' = [nominatim EXCEPT ![c] =
                            IF o = "reject" THEN Fetching
                            ELSE IF o = "not_ok" THEN Settled(HttpError)
                            ELSE Parsing]
        /\ settleOrder' = [settleOrder EXCEPT ![c] =
                              IF o = "not_ok" THEN Append(@, 1) ELSE @]
        /\ fetches' = IF o = "reject"
                        THEN [fetches EXCEPT !["nominatim"][coord[c]] = @ + 1]
                        ELSE fetches
    /\ UNCHANGED <<pc, coord, bigDataCloud, outcome, elsewhere>>

\* await fetch(...) in getNominatimAddress settles: the fetch rejects, or the
\* response is not OK (the function throws), or it is OK (response.json() starts).
NominatimFetched(c) ==
    /\ nominatim[c].stage = "fetch"
    /\ \E o \in FetchOutcomes :
        /\ nominatim' = [nominatim EXCEPT ![c] =
                        IF o = "reject" THEN Settled(NetworkError)
                        ELSE IF o = "not_ok" THEN Settled(HttpError)
                        ELSE Parsing]
        /\ settleOrder' = [settleOrder EXCEPT ![c] =
                              IF o = "ok" THEN @ ELSE Append(@, 1)]
    /\ UNCHANGED <<pc, coord, bigDataCloud, outcome, fetches, elsewhere>>

\* await response.json() in getNominatimAddress settles: a parse error, or one
\* of the given bodies parsed.
NominatimParsed(c, bodies) ==
    /\ nominatim[c].stage = "json"
    /\ \E resp \in {ParseError} \cup {Body(d) : d \in bodies} :
           nominatim' = [nominatim EXCEPT ![c] = Settled(resp)]
    /\ settleOrder' = [settleOrder EXCEPT ![c] = Append(@, 1)]
    /\ UNCHANGED <<pc, coord, bigDataCloud, outcome, fetches, elsewhere>>

BigDataCloudFetched(c) ==
    /\ bigDataCloud[c].stage = "fetch"
    /\ \E o \in FetchOutcomes :
        /\ bigDataCloud' = [bigDataCloud EXCEPT ![c] =
                           IF o = "reject" THEN Settled(NetworkError)
                           ELSE IF o = "not_ok" THEN Settled(HttpError)
                           ELSE Parsing]
        /\ settleOrder' = [settleOrder EXCEPT ![c] =
                              IF o = "ok" THEN @ ELSE Append(@, 2)]
    /\ UNCHANGED <<pc, coord, nominatim, outcome, fetches, elsewhere>>

BigDataCloudParsed(c, bodies) ==
    /\ bigDataCloud[c].stage = "json"
    /\ \E resp \in {ParseError} \cup {Body(d) : d \in bodies} :
           bigDataCloud' = [bigDataCloud EXCEPT ![c] = Settled(resp)]
    /\ settleOrder' = [settleOrder EXCEPT ![c] = Append(@, 2)]
    /\ UNCHANGED <<pc, coord, nominatim, outcome, fetches, elsewhere>>

\* Mutant: the result is kept in one place shared by every call.
ReturnShared(c) ==
    /\ pc[c] = "awaiting"
    /\ AllSettledReady(Promises(c))
    /\ outcome' = [d \in Calls |->
                      IF d = c \/ pc[d] = "returned"
                      THEN getEnhancedAddress(AllSettled(Promises(c), settleOrder[c]))
                      ELSE outcome[d]]
    /\ pc' = [pc EXCEPT ![c] = "returned"]
    /\ UNCHANGED <<coord, nominatim, bigDataCloud, settleOrder, fetches, elsewhere>>

\* The await of Promise.allSettled resumes and getEnhancedAddress returns.
Return(c) ==
    /\ pc[c] = "awaiting"
    /\ AllSettledReady(Promises(c))
    /\ outcome' = [outcome EXCEPT ![c] =
                      getEnhancedAddress(AllSettled(Promises(c), settleOrder[c]))]
    /\ pc' = [pc EXCEPT ![c] = "returned"]
    /\ UNCHANGED <<coord, nominatim, bigDataCloud, settleOrder, fetches, elsewhere>>

\* Concurrent calls, all for one coordinate, with a few response bodies
Next ==
    \E c \in Calls :
        \/ Call(c, SameCoordinate)
        \/ NominatimFetched(c)
        \/ NominatimParsed(c, FewNominatimData)
        \/ BigDataCloudFetched(c)
        \/ BigDataCloudParsed(c, FewBigDataCloudData)
        \/ Return(c)

Spec == Init /\ [][Next]_vars

\* One call, with every response body
NextOne ==
    \/ \E xy \in Coordinates : Call(1, xy)
    \/ NominatimFetched(1)
    \/ NominatimParsed(1, NominatimData)
    \/ BigDataCloudFetched(1)
    \/ BigDataCloudParsed(1, BigDataCloudData)
    \/ Return(1)

SpecOne == Init /\ [][NextOne]_vars

(***************************************************************************)
(* The display helpers                                                     *)
(***************************************************************************)
\* Mutant: the city is preferred to the neighborhood.
getDisplayAddressCityFirst(enhancedAddress, fallbackAddress) ==
    IF enhancedAddress = Null THEN Or(fallbackAddress, "Location unknown")
    ELSE IF Truthy(Get(enhancedAddress, "streetNumber"))
            /\ Truthy(Get(enhancedAddress, "streetName"))
    THEN Get(enhancedAddress, "streetNumber") \o " " \o Get(enhancedAddress, "streetName")
    ELSE IF Truthy(Get(enhancedAddress, "streetName"))
    THEN Get(enhancedAddress, "streetName")
    ELSE IF Truthy(Get(enhancedAddress, "city"))
    THEN Get(enhancedAddress, "city")
    ELSE IF Truthy(Get(enhancedAddress, "neighborhood"))
    THEN Get(enhancedAddress, "neighborhood")
    ELSE Or(Or(Get(enhancedAddress, "formattedAddress"), fallbackAddress),
            "Location unknown")

getDisplayAddress(enhancedAddress, fallbackAddress) ==
    IF enhancedAddress = Null THEN Or(fallbackAddress, "Location unknown")
    ELSE IF Truthy(Get(enhancedAddress, "streetNumber"))
            /\ Truthy(Get(enhancedAddress, "streetName"))
    THEN Get(enhancedAddress, "streetNumber") \o " " \o Get(enhancedAddress, "streetName")
    ELSE IF Truthy(Get(enhancedAddress, "streetName"))
    THEN Get(enhancedAddress, "streetName")
    ELSE IF Truthy(Get(enhancedAddress, "neighborhood"))
    THEN Get(enhancedAddress, "neighborhood")
    ELSE IF Truthy(Get(enhancedAddress, "city"))
    THEN Get(enhancedAddress, "city")
    ELSE Or(Or(Get(enhancedAddress, "formattedAddress"), fallbackAddress),
            "Location unknown")

\* parts.includes(value)
Includes(parts, value) == \E i \in 1..Len(parts) : parts[i] = value

\* Mutant: a field is added whether or not it is among the parts already.
PushUnlessIncludedAlways(parts, value) ==
    IF Truthy(value) THEN Append(parts, value) ELSE parts

\* if (value && !parts.includes(value)) parts.push(value)
PushUnlessIncluded(parts, value) ==
    IF Truthy(value) /\ ~Includes(parts, value) THEN Append(parts, value) ELSE parts

\* The street line getDescriptiveLocation starts its parts with
StreetParts(enhancedAddress) ==
    IF Truthy(Get(enhancedAddress, "streetNumber"))
       /\ Truthy(Get(enhancedAddress, "streetName"))
    THEN <<Get(enhancedAddress, "streetNumber") \o " " \o Get(enhancedAddress, "streetName")>>
    ELSE IF Truthy(Get(enhancedAddress, "streetName"))
    THEN <<Get(enhancedAddress, "streetName")>>
    ELSE <<>>

\* Mutant: the country closes the description.
getDescriptiveLocationWithCountry(enhancedAddress, fallbackAddress) ==
    IF enhancedAddress = Null THEN Or(fallbackAddress, "Location unknown")
    ELSE LET parts ==
                 PushUnlessIncluded(
                     PushUnlessIncluded(
                         PushUnlessIncluded(
                             PushUnlessIncluded(StreetParts(enhancedAddress),
                                                Get(enhancedAddress, "neighborhood")),
                             Get(enhancedAddress, "city")),
                         Get(enhancedAddress, "state")),
                     Get(enhancedAddress, "country"))
         IN  IF Len(parts) = 0 /\ Truthy(Get(enhancedAddress, "formattedAddress"))
             THEN Get(enhancedAddress, "formattedAddress")
             ELSE IF Len(parts) > 0 THEN Join(parts)
             ELSE Or(fallbackAddress, "Location unknown")

getDescriptiveLocation(enhancedAddress, fallbackAddress) ==
    IF enhancedAddress = Null THEN Or(fallbackAddress, "Location unknown")
    ELSE LET parts ==
                 PushUnlessIncluded(
                     PushUnlessIncluded(
                         PushUnlessIncluded(StreetParts(enhancedAddress),
                                            Get(enhancedAddress, "neighborhood")),
                         Get(enhancedAddress, "city")),
                     Get(enhancedAddress, "state"))
         IN  IF Len(parts) = 0 /\ Truthy(Get(enhancedAddress, "formattedAddress"))
             THEN Get(enhancedAddress, "formattedAddress")
             ELSE IF Len(parts) > 0 THEN Join(parts)
             ELSE Or(fallbackAddress, "Location unknown")

\* AddressComponents as the two providers can build them, and as they can be
\* stored: fields that repeat one another, a field holding ", ", an empty field
ComponentInputs ==
    {Null}
    \cup [streetNumber : {Undefined, "123"},
          streetName : {Undefined, "", "Main St"},
          neighborhood : {Undefined, "Main St", "123 Main St", "Chicago", "Loop, Chicago"},
          city : {Undefined, "", "Chicago", "Main St"},
          state : {Undefined, "Chicago", "Illinois"},
          country : {Undefined, "USA"},
          postalCode : {Undefined, "60606"},
          formattedAddress : {Undefined, "", "New York, New York, USA"},
          distanceFromStreet : {JsNull}]
    \cup {BigDataCloudComponents(d) : d \in BigDataCloudData \ {Null}}

\* image.location.address: absent, empty, or what reverseGeocode joined
FallbackInputs == {Undefined, "", "X", "New York, New York"}

InitText ==
    /\ NoCalls
    /\ NoPicture
    /\ NoReader
    /\ Mounted
    /\ Rest
    /\ components \in ComponentInputs
    /\ fallback \in FallbackInputs
    /\ displayAddress = NotRun
    /\ descriptiveLocation = NotRun

\* A caller shows the short address
Display ==
    /\ displayAddress = NotRun
    /\ displayAddress' = getDisplayAddress(components, fallback)
    /\ UNCHANGED <<components, fallback, descriptiveLocation>>

\* A caller (ImageCard) shows the descriptive location
Describe ==
    /\ descriptiveLocation = NotRun
    /\ descriptiveLocation' = getDescriptiveLocation(components, fallback)
    /\ UNCHANGED <<components, fallback, displayAddress>>

enrichment == <<pc, coord, nominatim, bigDataCloud, settleOrder, outcome, fetches>>

NextText ==
    \/ Display /\ UNCHANGED <<enrichment, cropVars, pageVars, feedVars, laterVars>>
    \/ Describe /\ UNCHANGED <<enrichment, cropVars, pageVars, feedVars, laterVars>>

SpecText == InitText /\ [][NextText]_vars

(***************************************************************************)
(* Image preprocessing (ImageUpload.processImageForDisplay)                *)
(***************************************************************************)
MaxSide == 12

\* Lengths of the source rectangle are kept in 1/40 of a pixel, in which
\* h * (4 / 5), w / (4 / 5) and the halves of the margins are whole numbers
Unit == 40

\* 4 / 5, as numerator and denominator
TARGET_ASPECT_RATIO == <<4, 5>>

TARGET_WIDTH == 800

TARGET_HEIGHT == 1000

\* a > the ratio, for a = w / h with h > 0
WiderThan(w, h, ratio) == w * ratio[2] > ratio[1] * h

TallerThan(w, h, ratio) == w * ratio[2] < ratio[1] * h

\* length * ratio and length / ratio, of a length in units
Times(length, ratio) == (length * ratio[1]) \div ratio[2]

Over(length, ratio) == (length * ratio[2]) \div ratio[1]

\* Mutant: the width is cropped by dividing by the ratio.
SourceRectangleDivided(originalWidth, originalHeight) ==
    IF WiderThan(originalWidth, originalHeight, TARGET_ASPECT_RATIO)
    THEN LET sourceWidth == Over(originalHeight * Unit, TARGET_ASPECT_RATIO)
         IN  [sourceX |-> (originalWidth * Unit - sourceWidth) \div 2,
              sourceY |-> 0,
              sourceWidth |-> sourceWidth,
              sourceHeight |-> originalHeight * Unit]
    ELSE IF TallerThan(originalWidth, originalHeight, TARGET_ASPECT_RATIO)
    THEN LET sourceHeight == Over(originalWidth * Unit, TARGET_ASPECT_RATIO)
         IN  [sourceX |-> 0,
              sourceY |-> (originalHeight * Unit - sourceHeight) \div 2,
              sourceWidth |-> originalWidth * Unit,
              sourceHeight |-> sourceHeight]
    ELSE [sourceX |-> 0, sourceY |-> 0,
          sourceWidth |-> originalWidth * Unit,
          sourceHeight |-> originalHeight * Unit]

\* sourceX, sourceY, sourceWidth, sourceHeight as img.onload computes them
SourceRectangle(originalWidth, originalHeight) ==
    IF WiderThan(originalWidth, originalHeight, TARGET_ASPECT_RATIO)
    THEN LET sourceWidth == Times(originalHeight * Unit, TARGET_ASPECT_RATIO)
         IN  [sourceX |-> (originalWidth * Unit - sourceWidth) \div 2,
              sourceY |-> 0,
              sourceWidth |-> sourceWidth,
              sourceHeight |-> originalHeight * Unit]
    ELSE IF TallerThan(originalWidth, originalHeight, TARGET_ASPECT_RATIO)
    THEN LET sourceHeight == Over(originalWidth * Unit, TARGET_ASPECT_RATIO)
         IN  [sourceX |-> 0,
              sourceY |-> (originalHeight * Unit - sourceHeight) \div 2,
              sourceWidth |-> originalWidth * Unit,
              sourceHeight |-> sourceHeight]
    ELSE [sourceX |-> 0, sourceY |-> 0,
          sourceWidth |-> originalWidth * Unit,
          sourceHeight |-> originalHeight * Unit]

\* What ctx.drawImage was given, and the canvas it drew on
Drawn(originalWidth, originalHeight) ==
    [source |-> SourceRectangle(originalWidth, originalHeight),
     canvas |-> [width |-> TARGET_WIDTH, height |-> TARGET_HEIGHT]]

InitCrop ==
    /\ NoCalls
    /\ NoText
    /\ NoReader
    /\ Mounted
    /\ Rest
    /\ picture \in [width : 1..MaxSide, height : 1..MaxSide]
    /\ processed = Pending

\* img.onload: without a 2D context the promise rejects; with one the image
\* is cropped, drawn and encoded, and the promise resolves with the file, or
\* rejects when toBlob yields no blob
OnLoad ==
    /\ processed = Pending
    /\ \E ctx \in {"2d", "none"}, blob \in {"jpeg", "none"} :
           processed' =
               IF ctx = "none" THEN Rejected("Could not get canvas context")
               ELSE IF blob = "none" THEN Rejected("Failed to process image")
               ELSE Fulfilled(Drawn(picture.width, picture.height))
    /\ UNCHANGED picture

\* img.onerror
OnError ==
    /\ processed = Pending
    /\ processed' = Rejected("Failed to load image")
    /\ UNCHANGED picture

NextCrop ==
    \/ OnLoad /\ UNCHANGED <<enrichment, textVars, pageVars, feedVars, laterVars>>
    \/ OnError /\ UNCHANGED <<enrichment, textVars, pageVars, feedVars, laterVars>>

SpecCrop == InitCrop /\ [][NextCrop]_vars

(***************************************************************************)
(* The image collection read page by page (imageService.getImages)         *)
(***************************************************************************)
MaxImages == 3

MaxTime == 2

MaxPageSize == 2

ImageIds == 1..MaxImages

\* A stored document: its createdAt, whether it has an enhancedAddress, and
\* whether its location has (non-zero) lat and lng
Documents == [createdAt : 1..MaxTime, enhancedAddress : BOOLEAN, located : BOOLEAN]

\* The collections there can be: any documents under any of the ids
Collections == UNION {[ids -> Documents] : ids \in SUBSET ImageIds}

\* orderBy('createdAt', 'desc'): a comes before b; documents with the same
\* createdAt are ordered by their name, in the same direction
Precedes(docs, a, b) ==
    \/ docs[a].createdAt > docs[b].createdAt
    \/ docs[a].createdAt = docs[b].createdAt /\ a > b

\* The ids of a set of documents in query order
RECURSIVE InOrder(_, _)
InOrder(docs, ids) ==
    IF ids = {} THEN <<>>
    ELSE LET first == CHOOSE a \in ids : \A b \in ids \ {a} : Precedes(docs, a, b)
         IN  <<first>> \o InOrder(docs, ids \ {first})

\* Mutant: the cursor is the createdAt value alone, not the document.
StartAfterValue(docs, lastDoc) ==
    IF lastDoc = NoDoc THEN DOMAIN docs
    ELSE {a \in DOMAIN docs : docs[a].createdAt < docs[lastDoc].createdAt}

\* startAfter(lastDoc): the documents behind the snapshot's position
StartAfter(docs, lastDoc) ==
    IF lastDoc = NoDoc THEN DOMAIN docs
    ELSE {a \in DOMAIN docs : Precedes(docs, lastDoc, a)}

\* limit(pageSize)
Limit(ordered, n) == SubSeq(ordered, 1, IF Len(ordered) < n THEN Len(ordered) ELSE n)

\* getDocs(q)
QuerySnapshot(docs, size, lastDoc) == Limit(InOrder(docs, StartAfter(docs, lastDoc)), size)

\* What the forEach of getImages leaves: the images pushed, and the last
\* document visited as newLastDoc (undefined when there was none)
getImages(docs, size, lastDoc) ==
    LET snapshot == QuerySnapshot(docs, size, lastDoc)
    IN  [images |-> snapshot,
         lastDoc |-> IF snapshot = <<>> THEN NoDoc ELSE snapshot[Len(snapshot)]]

\* The documents of a snapshot for which the forEach starts a migration
NeedMigration(docs, snapshot) ==
    {snapshot[i] : i \in {j \in 1..Len(snapshot) :
                            ~docs[snapshot[j]].enhancedAddress /\ docs[snapshot[j]].located}}

InitPages ==
    /\ NoCalls
    /\ NoText
    /\ NoPicture
    /\ Mounted
    /\ Rest
    /\ images \in Collections
    /\ pageSize \in 1..MaxPageSize
    /\ cursor = NoDoc
    /\ pages = <<>>
    /\ fetched = Pending
    /\ migrations = {}

\* The reader has come to an empty page
Finished == pages /= <<>> /\ pages[Len(pages)].result.images = <<>>

\* A call getImages(pageSize, cursor) returns, and the reader takes the
\* returned lastDoc as its next cursor
GetImages ==
    /\ ~Finished
    /\ LET result == getImages(images, pageSize, cursor)
       IN  /\ fetched' = Fulfilled(result)
           /\ pages' = Append(pages, [lastDoc |-> cursor, result |-> result])
           /\ cursor' = result.lastDoc
           /\ migrations' = migrations \cup NeedMigration(images, result.images)
    /\ UNCHANGED <<images, pageSize>>

\* getDocs rejects: the catch logs and throws; the reader keeps its cursor
GetImagesFails ==
    /\ ~Finished
    /\ fetched /= Rejected("Failed to get images")
    /\ fetched' = Rejected("Failed to get images")
    /\ UNCHANGED <<images, pageSize, cursor, pages, migrations>>

NextPages ==
    \/ GetImages /\ UNCHANGED <<enrichment, textVars, cropVars, feedVars, laterVars>>
    \/ GetImagesFails /\ UNCHANGED <<enrichment, textVars, cropVars, feedVars, laterVars>>

SpecPages == InitPages /\ [][NextPages]_vars

(***************************************************************************)
(* The home feed (Home in app/page.tsx)                                    *)
(***************************************************************************)
\* The page size of the feed (getImages(10), length === 10), scaled down
FeedPageSize == 2

\* The pagination calls that may be awaiting at once
MaxInFlight == 2

\* What a getImages call of the feed may resolve to: any images, up to the
\* page size, in any order, repeated or seen before
FeedPages == UNION {[1..n -> FeedIds] : n \in 0..FeedPageSize}

\* The lastDoc getImages returns with a page
NewLastDoc(page) == IF page = <<>> THEN Undefined ELSE page[Len(page)]

\* The ids of the three mock images
mockImages == <<"1", "2", "3">>

\* list.filter((image, index, self) => index === self.findIndex(same id))
RECURSIVE UniqueImages(_)
UniqueImages(list) ==
    IF list = <<>> THEN <<>>
    ELSE LET front == SubSeq(list, 1, Len(list) - 1)
             image == list[Len(list)]
         IN  IF \E index \in 1..Len(front) : front[index] = image
             THEN UniqueImages(front)
             ELSE Append(UniqueImages(front), image)

\* Mutant: the images already in the list are not filtered out.
TrulyNewImagesUnfiltered(prev, moreImages) == UniqueImages(moreImages)

\* uniqueNewImages.filter(img => !existingIds.has(img.id))
TrulyNewImages(prev, moreImages) ==
    LET existingIds == {prev[i] : i \in 1..Len(prev)}
        New(image) == image \notin existingIds
    IN  SelectSeq(UniqueImages(moreImages), New)

\* The pagination calls awaiting getImages
RECURSIVE Awaiting(_, _)
Awaiting(calls, cursors) ==
    IF cursors = {} THEN 0
    ELSE LET c == CHOOSE x \in cursors : TRUE
         IN  calls[c] + Awaiting(calls, cursors \ {c})

InitFeed == NoCalls /\ NoText /\ NoPicture /\ NoReader /\ Mounted /\ Rest

\* loadImages: await getImages(10) resolves with a page
LoadImagesReturns ==
    /\ initialLoad = "pending"
    /\ initialLoad' = "done"
    /\ \E firebaseImages \in FeedPages :
        /\ received' = Fulfilled(firebaseImages)
        /\ home' = IF Len(firebaseImages) > 0
                   THEN [home EXCEPT !.images = UniqueImages(firebaseImages),
                                     !.lastDoc = NewLastDoc(firebaseImages),
                                     !.hasMore = (Len(firebaseImages) = FeedPageSize),
                                     !.initialLoading = FALSE]
                   ELSE [home EXCEPT !.images = mockImages,
                                     !.hasMore = FALSE,
                                     !.initialLoading = FALSE]
    /\ UNCHANGED <<observer, inFlight>>

\* loadImages: await getImages(10) rejects
LoadImagesFails ==
    /\ initialLoad = "pending"
    /\ initialLoad' = "done"
    /\ received' = Rejected("Failed to get images")
    /\ home' = [home EXCEPT !.images = mockImages,
                            !.hasMore = FALSE,
                            !.initialLoading = FALSE]
    /\ UNCHANGED <<observer, inFlight>>

\* The IntersectionObserver callback, up to its await: it tests the entry and
\* the loading, initialLoading and hasMore of the render whose effect
\* installed it, sets loading and calls getImages(10, lastDoc) with the
\* lastDoc of that render
Intersect(isIntersecting) ==
    /\ Awaiting(inFlight, Cursors) < MaxInFlight
    /\ IF isIntersecting /\ ~observer.loading /\ ~observer.initialLoading
          /\ observer.hasMore
       THEN /\ home' = [home EXCEPT !.loading = TRUE]
            /\ inFlight' = [inFlight EXCEPT ![observer.lastDoc] = @ + 1]
       ELSE UNCHANGED <<home, inFlight>>
    /\ UNCHANGED <<observer, initialLoad, received>>

\* The callback after its await: getImages(10, lastDoc) resolved with a page
MoreImagesReturn(lastDoc) ==
    /\ inFlight[lastDoc] > 0
    /\ inFlight' = [inFlight EXCEPT ![lastDoc] = @ - 1]
    /\ \E moreImages \in FeedPages :
        /\ received' = Fulfilled(moreImages)
        /\ home' = IF Len(moreImages) > 0
                   THEN [home EXCEPT !.images = @ \o TrulyNewImages(@, moreImages),
                                     !.lastDoc = NewLastDoc(moreImages),
                                     !.hasMore = (Len(moreImages) = FeedPageSize),
                                     !.loading = FALSE]
                   ELSE [home EXCEPT !.hasMore = FALSE, !.loading = FALSE]
    /\ UNCHANGED <<observer, initialLoad>>

\* Mutant: a failed page ends the feed.
MoreImagesFailEndsFeed(lastDoc) ==
    /\ inFlight[lastDoc] > 0
    /\ inFlight' = [inFlight EXCEPT ![lastDoc] = @ - 1]
    /\ received' = Rejected("Failed to get images")
    /\ home' = [home EXCEPT !.loading = FALSE, !.hasMore = FALSE]
    /\ UNCHANGED <<observer, initialLoad>>

\* The callback after its await: getImages(10, lastDoc) rejected
MoreImagesFail(lastDoc) ==
    /\ inFlight[lastDoc] > 0
    /\ inFlight' = [inFlight EXCEPT ![lastDoc] = @ - 1]
    /\ received' = Rejected("Failed to get images")
    /\ home' = [home EXCEPT !.loading = FALSE]
    /\ UNCHANGED <<observer, initialLoad>>

\* Home renders with the state as it is now and, a dependency having
\* changed, the scroll effect runs again: the old observer is disconnected and
\* a new one installed whose callback closes over this render's values
Rerender ==
    /\ observer /= Deps(home)
    /\ observer' = Deps(home)
    /\ UNCHANGED <<home, initialLoad, inFlight, received>>

outsideFeed == <<enrichment, textVars, cropVars, pageVars, laterVars>>

NextFeed ==
    \/ LoadImagesReturns /\ UNCHANGED outsideFeed
    \/ LoadImagesFails /\ UNCHANGED outsideFeed
    \/ \E isIntersecting \in BOOLEAN : Intersect(isIntersecting) /\ UNCHANGED outsideFeed
    \/ \E lastDoc \in Cursors : MoreImagesReturn(lastDoc) /\ UNCHANGED outsideFeed
    \/ \E lastDoc \in Cursors : MoreImagesFail(lastDoc) /\ UNCHANGED outsideFeed
    \/ Rerender /\ UNCHANGED outsideFeed

SpecFeed == InitFeed /\ [][NextFeed]_vars

(***************************************************************************)
(* The image service on its two stores (lib/imageService)                  *)
(***************************************************************************)
MaxMigrations == 1

IMAGES_COLLECTION == "images"

STORAGE_FOLDER == "images"

\* `undefined` where an object is expected
UndefinedObject == [isUndefined |-> TRUE]

\* An object reference that is neither null nor undefined (so truthy)
Present(obj) == obj /= Null /\ obj /= UndefinedObject

\* a ?? undefined
OrUndefined(a) == IF Present(a) THEN a ELSE UndefinedObject

\* Where pictures were taken, in whole degrees; one of the places on the
\* prime meridian
Chicago == [lat |-> 41, lng |-> -87]

Greenwich == [lat |-> 51, lng |-> 0]

Places == {Chicago, Greenwich}

\* calculateDistance: the Haversine distance in whole kilometres (R = 6371),
\* tabulated for the places above
calculateDistance(lat1, lng1, lat2, lng2) ==
    LET a == [lat |-> lat1, lng |-> lng1]
        b == [lat |-> lat2, lng |-> lng2]
    IN  IF a = b THEN 0 ELSE 6413

\* What getEnhancedAddress can return for a coordinate: null, or the address
\* components found there
EnhancedAddressAt(lat, lng) ==
    [formattedAddress |-> IF lat = Chicago.lat /\ lng = Chicago.lng THEN "Chicago, Illinois"
                          ELSE "Greenwich, England"]

EnrichmentResults(lat, lng) == {Null, EnhancedAddressAt(lat, lng)}

\* The characters of s from position `from` to position `to`, as far as
\* there are any
Slice(s, from, to) == SubSeq(s, from, IF to > Len(s) THEN Len(s) ELSE to)

\* The first position from `from` on at which t occurs in s, 0 when none
IndexOf(s, t, from) ==
    LET hits == {i \in from..(Len(s) - Len(t) + 1) : SubSeq(s, i, i + Len(t) - 1) = t}
    IN  IF hits = {} THEN 0 ELSE CHOOSE i \in hits : \A j \in hits : i <= j

\* String.prototype.replaceAll(t, by)
RECURSIVE ReplaceAll(_, _, _)
ReplaceAll(s, t, by) ==
    LET i == IndexOf(s, t, 1)
    IN  IF i = 0 THEN s
        ELSE SubSeq(s, 1, i - 1) \o by \o ReplaceAll(SubSeq(s, i + Len(t), Len(s)), t, by)

\* encodeURIComponent and decodeURIComponent, for paths of letters, digits,
\* '.', '_' and '/'
encodeURIComponent(s) == ReplaceAll(s, "/", "%2F")

decodeURIComponent(s) == ReplaceAll(s, "%2F", "/")

\* getDownloadURL: the URL the bucket serves an object under
getDownloadURL(fullPath) ==
    "https://firebasestorage.googleapis.com/v0/b/chicago-oracle/o/"
        \o encodeURIComponent(fullPath) \o "?alt=media"

\* new URL(src) throws unless src is an absolute URL
IsURL(src) == IndexOf(src, "://", 1) > 1

\* new URL(src).pathname
Pathname(src) ==
    LET host  == IndexOf(src, "://", 1) + 3
        slash == IndexOf(src, "/", host)
        query == IndexOf(src, "?", host)
        last  == IF query = 0 THEN Len(src) ELSE query - 1
    IN  IF slash = 0 \/ slash > last THEN "/" ELSE SubSeq(src, slash, last)

NoMatch == "<no match>"

\* pathname.match(/\/v0\/b\/[^\/]+\/o\/(.+)/): the first group of the
\* leftmost match
PathMatch(pathname) ==
    LET Ends(i) == IndexOf(pathname, "/", i + 6)
        hits == {i \in 1..Len(pathname) :
                   /\ Slice(pathname, i, i + 5) = "/v0/b/"
                   /\ Ends(i) > i + 6
                   /\ Slice(pathname, Ends(i), Ends(i) + 2) = "/o/"
                   /\ Ends(i) + 3 <= Len(pathname)}
        first == CHOOSE i \in hits : \A j \in hits : i <= j
    IN  IF hits = {} THEN NoMatch
        ELSE SubSeq(pathname, Ends(first) + 3, Len(pathname))

\* The storage path deleteImage derives from an image's src; NoMatch when it
\* throws instead
StoragePath(src) ==
    IF ~IsURL(src) THEN NoMatch
    ELSE IF PathMatch(Pathname(src)) = NoMatch THEN NoMatch
    ELSE decodeURIComponent(PathMatch(Pathname(src)))

\* name.split('.').pop()
RECURSIVE Extension(_)
Extension(name) ==
    LET dot == IndexOf(name, ".", 1)
    IN  IF dot = 0 THEN name ELSE Extension(SubSeq(name, dot + 1, Len(name)))

\* `${timestamp}_${random}`: what Date.now() and Math.random() contribute to
\* a file name
Stamps == {"1700000000000_k3x"}

\* `${STORAGE_FOLDER}/${fileName}`
StorageRef(stamp, file) == STORAGE_FOLDER \o "/" \o stamp \o "." \o Extension(file.name)

\* new Date() for the documents there are from the start, and when the
\* service is called
Before == 1

Today == 2

\* The ImageData the loaders build from a document
ImageOf(docs, id) ==
    [id |-> id,
     src |-> docs[id].src,
     alt |-> Or(docs[id].alt, ""),
     title |-> docs[id].title,
     createdAt |-> docs[id].createdAt,
     updatedAt |-> docs[id].updatedAt,
     location |-> docs[id].location,
     enhancedAddress |-> docs[id].enhancedAddress]

\* !data.enhancedAddress && data.location?.lat && data.location?.lng
StartsMigration(data) ==
    /\ ~Present(data.enhancedAddress)
    /\ Present(data.location) /\ data.location.lat /= 0
    /\ Present(data.location) /\ data.location.lng /= 0

\* migrateImageEnhancedAddress(doc.id, lat, lng) up to its first await
Migration(docs, id) ==
    [imageId |-> id, lat |-> docs[id].location.lat, lng |-> docs[id].location.lng,
     await |-> "getEnhancedAddress", enhancedAddress |-> Null]

\* The migrations the forEach over a snapshot starts, in its order
RECURSIVE MigrationsOf(_, _)
MigrationsOf(docs, snapshot) ==
    IF snapshot = <<>> THEN <<>>
    ELSE (IF StartsMigration(docs[Head(snapshot)])
            THEN <<Migration(docs, Head(snapshot))>> ELSE <<>>)
         \o MigrationsOf(docs, Tail(snapshot))

\* The ids of a set in the order getDocs gives an unordered query: by name
RECURSIVE ByName(_)
ByName(ids) ==
    IF ids = {} THEN <<>>
    ELSE LET first == CHOOSE a \in ids : \A b \in ids : a <= b
         IN  <<first>> \o ByName(ids \ {first})

\* images.sort((a, b) => b.createdAt.getTime() - a.createdAt.getTime()):
\* a stable sort, latest first
RECURSIVE SortLatestFirst(_, _)
SortLatestFirst(docs, list) ==
    IF list = <<>> THEN <<>>
    ELSE LET latest == CHOOSE i \in 1..Len(list) :
                         /\ \A j \in 1..Len(list) :
                                docs[list[j]].createdAt <= docs[list[i]].createdAt
                         /\ \A j \in 1..(i - 1) :
                                docs[list[j]].createdAt < docs[list[i]].createdAt
         IN  <<list[latest]>>
             \o SortLatestFirst(docs, SubSeq(list, 1, latest - 1)
                                      \o SubSeq(list, latest + 1, Len(list)))

\* The documents getImagesByLocation pushes, in the order of its forEach
WithinRadius(docs, centerLat, centerLng, radiusKm) ==
    LET Near(id) ==
            /\ Present(docs[id].location)
            /\ calculateDistance(centerLat, centerLng,
                                 docs[id].location.lat, docs[id].location.lng) <= radiusKm
    IN  ByName({id \in DOMAIN docs : Near(id)})

\* getImageById: the document of that id, null when there is none
getImageById(docs, id) ==
    IF id \notin DOMAIN docs THEN Null ELSE ImageOf(docs, id)

\* A list of ids as the list of their images
Images(docs, list) == [i \in 1..Len(list) |-> ImageOf(docs, list[i])]

\* What each operation's catch throws
Failure(op) ==
    IF op = "getImages" THEN "Failed to get images"
    ELSE IF op = "getImageById" THEN "Failed to get image"
    ELSE IF op = "getImagesByLocation" THEN "Failed to get images by location"
    ELSE IF op = "deleteImage" THEN "Failed to delete image"
    ELSE "Failed to upload image"

\* The ids documents can have: the seeded ones, and those addDoc generates
SeededIds == {1, 2}

AutoIds == {3}

\* Documents there can be from the start: uploaded by this service at some
\* version (with or without an enhancedAddress), or put there by other means
\* (any src, no location)
SeededOne ==
    {[src |-> getDownloadURL("images/1600000000000_a1b.jpg"), alt |-> "", title |-> "Bean",
      createdAt |-> Before, updatedAt |-> Before, location |-> place, enhancedAddress |-> a]
        : place \in Places, a \in {UndefinedObject}}
    \cup {[src |-> getDownloadURL("images/1600000000000_a1b.jpg"), alt |-> "", title |-> "Bean",
           createdAt |-> Before, updatedAt |-> Before,
           location |-> place, enhancedAddress |-> EnhancedAddressAt(place.lat, place.lng)]
            : place \in {Chicago}}

SeededTwo ==
    {[src |-> s, alt |-> Undefined, title |-> "Pier",
      createdAt |-> Before, updatedAt |-> Before,
      location |-> l, enhancedAddress |-> UndefinedObject]
        : s \in {"https://picsum.photos/800/1000", "/placeholder.jpg"},
          l \in {UndefinedObject}}
    \cup {[src |-> getDownloadURL("images/1600000000002_c3d.png"), alt |-> Undefined,
           title |-> "Pier", createdAt |-> Before, updatedAt |-> Before,
           location |-> Chicago, enhancedAddress |-> UndefinedObject]}

Seeded ==
    {<<>>} \cup {(1 :> a) : a \in SeededOne} \cup {(2 :> b) : b \in SeededTwo}
    \cup {(1 :> a) @@ (2 :> b) : a \in SeededOne, b \in SeededTwo}

\* The objects the documents' srcs name
Referenced(docs) == {StoragePath(docs[id].src) : id \in DOMAIN docs} \ {NoMatch}

\* The calls a client makes of the loaders and of deleteImage
Requests ==
    {[op |-> "getImages", await |-> "getDocs", pageSize |-> n] : n \in {1, 10}}
    \cup {[op |-> "getImageById", await |-> "getDoc", id |-> id] : id \in SeededIds \cup AutoIds}
    \cup {[op |-> "getImagesByLocation", await |-> "getDocs",
           centerLat |-> Chicago.lat, centerLng |-> Chicago.lng, radiusKm |-> r]
            : r \in {10, 5000}}
    \cup {[op |-> "deleteImage", await |-> "getImageById", id |-> id]
            : id \in SeededIds \cup AutoIds}

\* The UploadImageData a client uploads (the form sends no alt)
Uploads ==
    {[file |-> [name |-> "IMG_0042.processed.jpg"], title |-> "Skyline", alt |-> Undefined,
      location |-> Chicago, enhancedAddress |-> a]
        : a \in {UndefinedObject, EnhancedAddressAt(Chicago.lat, Chicago.lng)}}
    \cup {[file |-> [name |-> "meridian"], title |-> "Meridian", alt |-> Undefined,
           location |-> Greenwich, enhancedAddress |-> UndefinedObject]}

InitStore ==
    /\ NoCalls
    /\ NoText
    /\ NoPicture
    /\ NoReader
    /\ Mounted
    /\ db \in Seeded
    /\ bucket = Referenced(db)
    /\ named = DOMAIN db
    /\ call = NoCall
    /\ returned = Pending
    /\ migrating = <<>>
    /\ migrated = Pending
    /\ NoForm
    /\ NoDisplay

\* A client calls a loader or deleteImage, which runs to its first await
Invoke(request) ==
    /\ call = NoCall
    /\ call' = request
    /\ returned' = Pending
    /\ UNCHANGED <<db, bucket, named, migrating, migrated>>

\* A client calls uploadImage, which runs to the await of uploadBytes
InvokeUpload(imageData, stamp) ==
    /\ call = NoCall
    /\ AutoIds \ named /= {}
    /\ StorageRef(stamp, imageData.file) \notin bucket
    /\ call' = [op |-> "uploadImage", await |-> "uploadBytes", imageData |-> imageData,
                fullPath |-> StorageRef(stamp, imageData.file)]
    /\ returned' = Pending
    /\ UNCHANGED <<db, bucket, named, migrating, migrated>>

\* The await of a loader rejects: its catch logs and throws
LoadFails ==
    /\ call.op \in {"getImages", "getImageById", "getImagesByLocation"}
    /\ returned' = Rejected(Failure(call.op))
    /\ call' = NoCall
    /\ UNCHANGED <<db, bucket, named, migrating, migrated>>

\* getImages(pageSize): getDocs returns, the forEach builds the images and
\* starts the migrations, the call returns
GetImagesReturns ==
    /\ call.op = "getImages"
    /\ LET result == getImages(db, call.pageSize, NoDoc)
       IN  /\ Len(migrating) + Len(MigrationsOf(db, result.images)) <= MaxMigrations
           /\ migrating' = migrating \o MigrationsOf(db, result.images)
           /\ returned' = Fulfilled([images |-> Images(db, result.images),
                                     lastDoc |-> result.lastDoc])
    /\ call' = NoCall
    /\ UNCHANGED <<db, bucket, named, migrated>>

\* getImageById(id): getDoc returns and the call returns, null or the image
GetImageByIdReturns ==
    /\ call.op = "getImageById"
    /\ LET found == IF call.id \in DOMAIN db THEN <<call.id>> ELSE <<>>
       IN  /\ Len(migrating) + Len(MigrationsOf(db, found)) <= MaxMigrations
           /\ migrating' = migrating \o MigrationsOf(db, found)
    /\ returned' = Fulfilled(getImageById(db, call.id))
    /\ call' = NoCall
    /\ UNCHANGED <<db, bucket, named, migrated>>

\* getImagesByLocation(centerLat, centerLng, radiusKm): getDocs returns, the
\* forEach pushes the images within the radius and starts their migrations,
\* the call returns them sorted
GetImagesByLocationReturns ==
    /\ call.op = "getImagesByLocation"
    /\ LET near == WithinRadius(db, call.centerLat, call.centerLng, call.radiusKm)
       IN  /\ Len(migrating) + Len(MigrationsOf(db, near)) <= MaxMigrations
           /\ migrating' = migrating \o MigrationsOf(db, near)
           /\ returned' = Fulfilled(Images(db, SortLatestFirst(db, near)))
    /\ call' = NoCall
    /\ UNCHANGED <<db, bucket, named, migrated>>

\* getEnhancedAddress returns to migration i: with an address it goes on to
\* updateDoc, with null it warns and is done
Enriched(i, address) ==
    /\ i \in 1..Len(migrating)
    /\ migrating[i].await = "getEnhancedAddress"
    /\ IF Present(address)
         THEN /\ migrating' = [migrating EXCEPT ![i].await = "updateDoc",
                                                ![i].enhancedAddress = address]
              /\ UNCHANGED migrated
         ELSE /\ migrating' = SubSeq(migrating, 1, i - 1)
                                \o SubSeq(migrating, i + 1, Len(migrating))
              /\ migrated' = Fulfilled(Undefined)
    /\ UNCHANGED <<db, bucket, named, call, returned>>

\* updateDoc(docRef, {enhancedAddress, updatedAt: new Date()}) of migration i
\* succeeds, which takes the document to exist
UpdateDocReturns(i) ==
    /\ i \in 1..Len(migrating)
    /\ migrating[i].await = "updateDoc"
    /\ migrating[i].imageId \in DOMAIN db
    /\ db' = [db EXCEPT ![migrating[i].imageId].enhancedAddress = migrating[i].enhancedAddress,
                        ![migrating[i].imageId].updatedAt = Today]
    /\ migrating' = SubSeq(migrating, 1, i - 1) \o SubSeq(migrating, i + 1, Len(migrating))
    /\ migrated' = Fulfilled(Undefined)
    /\ UNCHANGED <<bucket, named, call, returned>>

\* Mutant: the catch of the migration throws on.
UpdateDocFailsThrowing(i) ==
    /\ i \in 1..Len(migrating)
    /\ migrating[i].await = "updateDoc"
    /\ migrating' = SubSeq(migrating, 1, i - 1) \o SubSeq(migrating, i + 1, Len(migrating))
    /\ migrated' = Rejected("Failed to migrate image")
    /\ UNCHANGED <<db, bucket, named, call, returned>>

\* updateDoc of migration i rejects (no such document, or the network): the
\* catch logs and the migration is done
UpdateDocFails(i) ==
    /\ i \in 1..Len(migrating)
    /\ migrating[i].await = "updateDoc"
    /\ migrating' = SubSeq(migrating, 1, i - 1) \o SubSeq(migrating, i + 1, Len(migrating))
    /\ migrated' = Fulfilled(Undefined)
    /\ UNCHANGED <<db, bucket, named, call, returned>>

\* What deleteImage does once its getImageById has returned imageData
Looked(imageData) ==
    IF imageData = Null \/ StoragePath(imageData.src) = NoMatch
      THEN /\ returned' = Rejected(Failure("deleteImage"))
           /\ call' = NoCall
      ELSE /\ call' = [op |-> "deleteImage", await |-> "deleteObject", id |-> call.id,
                       fullPath |-> StoragePath(imageData.src)]
           /\ UNCHANGED returned

\* deleteImage(id): its getImageById(id) returns (starting a migration as
\* any load does); without an image, or with a src that is no storage URL,
\* it throws, otherwise it goes on to deleteObject
DeleteImageLooksUp ==
    /\ call.op = "deleteImage"
    /\ call.await = "getImageById"
    /\ LET found == IF call.id \in DOMAIN db THEN <<call.id>> ELSE <<>>
       IN  /\ Len(migrating) + Len(MigrationsOf(db, found)) <= MaxMigrations
           /\ migrating' = migrating \o MigrationsOf(db, found)
    /\ Looked(getImageById(db, call.id))
    /\ UNCHANGED <<db, bucket, named, migrated>>

\* Mutant: the document goes first, the object after it.
DeleteDocBeforeObject ==
    /\ call.op = "deleteImage"
    /\ call.await = "deleteObject"
    /\ db' = [id \in DOMAIN db \ {call.id} |-> db[id]]
    /\ call' = [call EXCEPT !.await = "deleteDoc"]
    /\ UNCHANGED <<bucket, named, returned, migrating, migrated>>

\* deleteObject(storageRef) succeeds, which takes the object to exist
DeleteObjectReturns ==
    /\ call.op = "deleteImage"
    /\ call.await = "deleteObject"
    /\ call.fullPath \in bucket
    /\ bucket' = bucket \ {call.fullPath}
    /\ call' = [call EXCEPT !.await = "deleteDoc"]
    /\ UNCHANGED <<db, named, returned, migrating, migrated>>

\* deleteDoc(docRef) succeeds
DeleteDocReturns ==
    /\ call.op = "deleteImage"
    /\ call.await = "deleteDoc"
    /\ db' = [id \in DOMAIN db \ {call.id} |-> db[id]]
    /\ returned' = Fulfilled(Undefined)
    /\ call' = NoCall
    /\ UNCHANGED <<bucket, named, migrating, migrated>>

\* An await of deleteImage rejects: its getImageById throws, deleteObject
\* rejects (no such object, or the network) or deleteDoc rejects
DeleteImageFails ==
    /\ call.op = "deleteImage"
    /\ returned' = Rejected(Failure("deleteImage"))
    /\ call' = NoCall
    /\ UNCHANGED <<db, bucket, named, migrating, migrated>>

\* Mutant: the document is written without the file having been stored.
UploadBytesSkipped ==
    /\ call.op = "uploadImage"
    /\ call.await = "uploadBytes"
    /\ call' = [op |-> "uploadImage", await |-> "addDoc", imageData |-> call.imageData,
                fullPath |-> call.fullPath, downloadURL |-> getDownloadURL(call.fullPath)]
    /\ UNCHANGED <<db, bucket, named, returned, migrating, migrated>>

\* uploadBytes(storageRef, file) succeeds
UploadBytesReturns ==
    /\ call.op = "uploadImage"
    /\ call.await = "uploadBytes"
    /\ bucket' = bucket \cup {call.fullPath}
    /\ call' = [call EXCEPT !.await = "getDownloadURL"]
    /\ UNCHANGED <<db, named, returned, migrating, migrated>>

\* getDownloadURL(uploadResult.ref) succeeds
GetDownloadURLReturns ==
    /\ call.op = "uploadImage"
    /\ call.await = "getDownloadURL"
    /\ call.fullPath \in bucket
    /\ call' = [op |-> "uploadImage", await |-> "addDoc", imageData |-> call.imageData,
                fullPath |-> call.fullPath, downloadURL |-> getDownloadURL(call.fullPath)]
    /\ UNCHANGED <<db, bucket, named, returned, migrating, migrated>>

\* newImageData
NewImageData(imageData, downloadURL) ==
    [src |-> downloadURL,
     alt |-> Or(imageData.alt, ""),
     title |-> imageData.title,
     createdAt |-> Today,
     updatedAt |-> Today,
     location |-> imageData.location,
     enhancedAddress |-> OrUndefined(imageData.enhancedAddress)]

\* addDoc(collection, newImageData) succeeds under a new id, and uploadImage
\* returns {id, ...newImageData}
AddDocReturns ==
    /\ call.op = "uploadImage"
    /\ call.await = "addDoc"
    /\ \E id \in AutoIds \ named :
          LET newImageData == NewImageData(call.imageData, call.downloadURL)
          IN  /\ db' = (id :> newImageData) @@ db
              /\ named' = named \cup {id}
              /\ returned' = Fulfilled((("id") :> id) @@ newImageData)
    /\ call' = NoCall
    /\ UNCHANGED <<bucket, migrating, migrated>>

\* An await of uploadImage rejects
UploadImageFails ==
    /\ call.op = "uploadImage"
    /\ returned' = Rejected(Failure("uploadImage"))
    /\ call' = NoCall
    /\ UNCHANGED <<db, bucket, named, migrating, migrated>>

outsideStore == <<enrichment, textVars, cropVars, pageVars, feedVars, formVars, consoleVars>>

NextStore ==
    \/ \E request \in Requests : Invoke(request) /\ UNCHANGED outsideStore
    \/ \E imageData \in Uploads, stamp \in Stamps :
          InvokeUpload(imageData, stamp) /\ UNCHANGED outsideStore
    \/ LoadFails /\ UNCHANGED outsideStore
    \/ GetImagesReturns /\ UNCHANGED outsideStore
    \/ GetImageByIdReturns /\ UNCHANGED outsideStore
    \/ GetImagesByLocationReturns /\ UNCHANGED outsideStore
    \/ \E i \in 1..MaxMigrations :
          \E address \in IF i \in 1..Len(migrating)
                           THEN EnrichmentResults(migrating[i].lat, migrating[i].lng)
                           ELSE {} :
             Enriched(i, address) /\ UNCHANGED outsideStore
    \/ \E i \in 1..MaxMigrations : UpdateDocReturns(i) /\ UNCHANGED outsideStore
    \/ \E i \in 1..MaxMigrations : UpdateDocFails(i) /\ UNCHANGED outsideStore
    \/ DeleteImageLooksUp /\ UNCHANGED outsideStore
    \/ DeleteObjectReturns /\ UNCHANGED outsideStore
    \/ DeleteDocReturns /\ UNCHANGED outsideStore
    \/ DeleteImageFails /\ UNCHANGED outsideStore
    \/ UploadBytesReturns /\ UNCHANGED outsideStore
    \/ GetDownloadURLReturns /\ UNCHANGED outsideStore
    \/ AddDocReturns /\ UNCHANGED outsideStore
    \/ UploadImageFails /\ UNCHANGED outsideStore

SpecStore == InitStore /\ [][NextStore]_vars

(***************************************************************************)
(* The copy of the image service in unnamed/part_002 (no enhancedAddress,  *)
(* no migration), on the same two stores                                   *)
(***************************************************************************)
\* The ImageData that copy's getImageById builds from a document
ImageOfCopy(docs, id) ==
    [id |-> id,
     src |-> docs[id].src,
     alt |-> Or(docs[id].alt, ""),
     title |-> docs[id].title,
     createdAt |-> docs[id].createdAt,
     updatedAt |-> docs[id].updatedAt,
     location |-> docs[id].location]

\* getDocs(query(collection, limit(1))): the first document by name
FirstDocument(docs) == Limit(ByName(DOMAIN docs), 1)

\* That copy's getImageById: docSnap.docs[0], null when the collection is
\* empty; the id is used for nothing
getImageByIdFirstDocument(docs, id) ==
    IF FirstDocument(docs) = <<>> THEN Null ELSE ImageOfCopy(docs, FirstDocument(docs)[1])

\* That copy's fullPath: decodeURIComponent(url.pathname.substring(1))
StoragePathCopy(src) ==
    IF ~IsURL(src) THEN NoMatch
    ELSE decodeURIComponent(SubSeq(Pathname(src), 2, Len(Pathname(src))))

\* The object each seeded document's file is stored as
ObjectOf(id) == IF id = 1 THEN "images/1600000000000_a1b.jpg"
                ELSE "images/1600000000002_c3d.png"

\* Documents as that copy's uploadImage writes them, with the download URL
\* as src, and documents whose src has the object's path as its pathname
SeededCopy(id) ==
    {[src |-> s, alt |-> "", title |-> IF id = 1 THEN "Bean" ELSE "Pier",
      createdAt |-> Before, updatedAt |-> Before, location |-> Chicago]
        : s \in {getDownloadURL(ObjectOf(id)),
                 "https://cdn.chicago-oracle.example/" \o ObjectOf(id)}}

InitCopy ==
    /\ NoCalls
    /\ NoText
    /\ NoPicture
    /\ NoReader
    /\ Mounted
    /\ \E ids \in SUBSET SeededIds :
          /\ db \in [ids -> UNION {SeededCopy(id) : id \in ids}]
          /\ \A id \in ids : db[id] \in SeededCopy(id)
          /\ bucket = {ObjectOf(id) : id \in ids}
          /\ named = ids
    /\ call = NoCall
    /\ returned = Pending
    /\ migrating = <<>>
    /\ migrated = Pending
    /\ NoForm
    /\ NoDisplay

\* That copy's getImageById(id): getDocs returns and the call returns
GetImageByIdReturnsCopy ==
    /\ call.op = "getImageById"
    /\ returned' = Fulfilled(getImageByIdFirstDocument(db, call.id))
    /\ call' = NoCall
    /\ UNCHANGED <<db, bucket, named, migrating, migrated>>

\* That copy's deleteImage(id): its getImageById(id) returns; without an
\* image, or with a src that is no URL, it throws, otherwise it goes on to
\* deleteObject
DeleteImageLooksUpCopy ==
    /\ call.op = "deleteImage"
    /\ call.await = "getImageById"
    /\ LET imageData == getImageByIdFirstDocument(db, call.id)
       IN  IF imageData = Null \/ StoragePathCopy(imageData.src) = NoMatch
             THEN /\ returned' = Rejected(Failure("deleteImage"))
                  /\ call' = NoCall
             ELSE /\ call' = [op |-> "deleteImage", await |-> "deleteObject", id |-> call.id,
                              fullPath |-> StoragePathCopy(imageData.src)]
                  /\ UNCHANGED returned
    /\ UNCHANGED <<db, bucket, named, migrating, migrated>>

NextCopy ==
    \/ \E request \in {r \in Requests : r.op \in {"getImageById", "deleteImage"}} :
          Invoke(request) /\ UNCHANGED outsideStore
    \/ call.op = "getImageById" /\ LoadFails /\ UNCHANGED outsideStore
    \/ GetImageByIdReturnsCopy /\ UNCHANGED outsideStore
    \/ DeleteImageLooksUpCopy /\ UNCHANGED outsideStore
    \/ DeleteObjectReturns /\ UNCHANGED outsideStore
    \/ DeleteDocReturns /\ UNCHANGED outsideStore
    \/ DeleteImageFails /\ UNCHANGED outsideStore

SpecCopy == InitCopy /\ [][NextCopy]_vars

(***************************************************************************)
(* The upload form (ImageUpload)                                           *)
(***************************************************************************)
MaxLookups == 2

\* A third place, off both axes
Evanston == [lat |-> 42, lng |-> -88]

\* What getCurrentLocation (and with it getLocationFromFile) can resolve to
Positions == {Chicago, Evanston, Greenwich}

\* The files a user picks, and the titles a user types
SelectedFiles == {"IMG_0042.jpg"}

Titles == {"", "Skyline"}

\* The file processImageForDisplay resolves to, and the data URL the
\* FileReader makes of it
ProcessedFile(file) == [name |-> file]

DataURL(file) == "data:image/jpeg;base64," \o file.name

InitForm ==
    /\ NoCalls
    /\ NoText
    /\ NoPicture
    /\ NoReader
    /\ Mounted
    /\ NoStore
    /\ NoForm
    /\ NoDisplay

\* A list without its i-th element
Without(list, i) == SubSeq(list, 1, i - 1) \o SubSeq(list, i + 1, Len(list))

\* onChange of the title input
SetTitle(text) ==
    /\ form.title /= text
    /\ form' = [form EXCEPT !.title = text]
    /\ UNCHANGED <<lookups, reading, submitting, uploaded>>

\* handleFileSelect up to the await of processImageForDisplay
HandleFileSelect(selectedFile) ==
    /\ Len(lookups) < MaxLookups
    /\ form' = [form EXCEPT !.file = selectedFile]
    /\ lookups' = Append(lookups, [handler |-> "handleFileSelect",
                                   await |-> "processImageForDisplay",
                                   selectedFile |-> selectedFile])
    /\ UNCHANGED <<reading, submitting, uploaded>>

\* processImageForDisplay resolves: the processed file is set, the reader
\* is started, and the handler goes on to the await of getLocationFromFile
ImageProcessed(i) ==
    /\ i \in 1..Len(lookups)
    /\ lookups[i].await = "processImageForDisplay"
    /\ form' = [form EXCEPT !.processedFile = ProcessedFile(lookups[i].selectedFile),
                            !.locationLoading = TRUE]
    /\ reading' = ProcessedFile(lookups[i].selectedFile)
    /\ lookups' = [lookups EXCEPT ![i].await = "getLocationFromFile"]
    /\ UNCHANGED <<submitting, uploaded>>

\* processImageForDisplay rejects: the error is reported to onUploadError
\* and the handler returns
ImageNotProcessed(i) ==
    /\ i \in 1..Len(lookups)
    /\ lookups[i].await = "processImageForDisplay"
    /\ lookups' = Without(lookups, i)
    /\ UNCHANGED <<form, reading, submitting, uploaded>>

\* reader.onload
PreviewLoaded ==
    /\ reading /= Null
    /\ form' = [form EXCEPT !.preview = DataURL(reading)]
    /\ reading' = Null
    /\ UNCHANGED <<lookups, submitting, uploaded>>

\* onClick of 'Get Current Location', shown while there is no location and
\* none is being looked up: handleGetLocation up to the await of
\* getCurrentLocation
HandleGetLocation ==
    /\ ~form.locationLoading
    /\ form.location = Null
    /\ Len(lookups) < MaxLookups
    /\ form' = [form EXCEPT !.locationLoading = TRUE]
    /\ lookups' = Append(lookups, [handler |-> "handleGetLocation",
                                   await |-> "getCurrentLocation"])
    /\ UNCHANGED <<reading, submitting, uploaded>>

\* The location lookup of handler i resolves: the location is set; with lat
\* and lng both truthy the handler goes on to the await inside
\* getEnhancedAddressData, otherwise it is done (finally)
Located(i, found) ==
    /\ i \in 1..Len(lookups)
    /\ lookups[i].await \in {"getLocationFromFile", "getCurrentLocation"}
    /\ IF found.lat /= 0 /\ found.lng /= 0
         THEN /\ form' = [form EXCEPT !.location = found]
              /\ lookups' = [lookups EXCEPT ![i] =
                                [handler |-> lookups[i].handler,
                                 await |-> "getEnhancedAddress",
                                 lat |-> found.lat, lng |-> found.lng]]
         ELSE /\ form' = [form EXCEPT !.location = found, !.locationLoading = FALSE]
              /\ lookups' = Without(lookups, i)
    /\ UNCHANGED <<reading, submitting, uploaded>>

\* The location lookup of handler i rejects: handleFileSelect only logs,
\* handleGetLocation reports the error; both are done (finally)
NotLocated(i) ==
    /\ i \in 1..Len(lookups)
    /\ lookups[i].await \in {"getLocationFromFile", "getCurrentLocation"}
    /\ form' = [form EXCEPT !.locationLoading = FALSE]
    /\ lookups' = Without(lookups, i)
    /\ UNCHANGED <<reading, submitting, uploaded>>

\* getEnhancedAddress resolves inside getEnhancedAddressData of handler i:
\* the result, null included, is set, and the handler is done (finally)
AddressData(i, addressData) ==
    /\ i \in 1..Len(lookups)
    /\ lookups[i].await = "getEnhancedAddress"
    /\ form' = [form EXCEPT !.enhancedAddress = addressData, !.locationLoading = FALSE]
    /\ lookups' = Without(lookups, i)
    /\ UNCHANGED <<reading, submitting, uploaded>>

\* onClick of 'Change Location', shown while there is a location and none
\* is being looked up
ChangeLocation ==
    /\ ~form.locationLoading
    /\ form.location /= Null
    /\ form' = [form EXCEPT !.location = Null, !.enhancedAddress = Null]
    /\ UNCHANGED <<lookups, reading, submitting, uploaded>>

\* uploadData
UploadData ==
    [file |-> form.processedFile, title |-> form.title, location |-> form.location,
     enhancedAddress |-> OrUndefined(form.enhancedAddress)]

\* Mutant: a submission waits for an enhanced address.
HandleSubmitNeedingAddress ==
    /\ submitting = Null
    /\ IF ~Present(form.processedFile) \/ ~Truthy(form.title) \/ ~Present(form.location)
          \/ ~Present(form.enhancedAddress)
         THEN UNCHANGED <<form, submitting, uploaded>>
         ELSE /\ form' = [form EXCEPT !.loading = TRUE]
              /\ submitting' = UploadData
              /\ uploaded' = Pending
    /\ UNCHANGED <<lookups, reading>>

\* handleSubmit up to the await of uploadImage(uploadData), or to its return
\* when a field is missing
HandleSubmit ==
    /\ submitting = Null
    /\ IF ~Present(form.processedFile) \/ ~Truthy(form.title) \/ ~Present(form.location)
         THEN UNCHANGED <<form, submitting, uploaded>>
         ELSE /\ form' = [form EXCEPT !.loading = TRUE]
              /\ submitting' = UploadData
              /\ uploaded' = Pending
    /\ UNCHANGED <<lookups, reading>>

\* uploadImage resolves: the form is reset, onUploadSuccess is called, and
\* loading is false again (finally)
Uploaded ==
    /\ submitting /= Null
    /\ form' = [form EXCEPT !.file = JsNull, !.processedFile = Null, !.title = "",
                            !.location = Null, !.enhancedAddress = Null,
                            !.preview = JsNull, !.loading = FALSE]
    /\ submitting' = Null
    /\ uploaded' = Fulfilled(Undefined)
    /\ UNCHANGED <<lookups, reading>>

\* uploadImage rejects: the error is reported to onUploadError and loading
\* is false again (finally)
NotUploaded ==
    /\ submitting /= Null
    /\ form' = [form EXCEPT !.loading = FALSE]
    /\ submitting' = Null
    /\ uploaded' = Rejected(Failure("uploadImage"))
    /\ UNCHANGED <<lookups, reading>>

outsideForm == <<enrichment, textVars, cropVars, pageVars, feedVars, storeVars, consoleVars>>

NextForm ==
    \/ \E text \in Titles : SetTitle(text) /\ UNCHANGED outsideForm
    \/ \E selectedFile \in SelectedFiles : HandleFileSelect(selectedFile) /\ UNCHANGED outsideForm
    \/ \E i \in 1..MaxLookups : ImageProcessed(i) /\ UNCHANGED outsideForm
    \/ \E i \in 1..MaxLookups : ImageNotProcessed(i) /\ UNCHANGED outsideForm
    \/ PreviewLoaded /\ UNCHANGED outsideForm
    \/ HandleGetLocation /\ UNCHANGED outsideForm
    \/ \E i \in 1..MaxLookups, found \in Positions : Located(i, found) /\ UNCHANGED outsideForm
    \/ \E i \in 1..MaxLookups : NotLocated(i) /\ UNCHANGED outsideForm
    \/ \E i \in 1..MaxLookups :
          \E addressData \in IF i \in 1..Len(lookups) /\ lookups[i].await = "getEnhancedAddress"
                               THEN EnrichmentResults(lookups[i].lat, lookups[i].lng)
                               ELSE {} :
             AddressData(i, addressData) /\ UNCHANGED outsideForm
    \/ ChangeLocation /\ UNCHANGED outsideForm
    \/ HandleSubmit /\ UNCHANGED outsideForm
    \/ Uploaded /\ UNCHANGED outsideForm
    \/ NotUploaded /\ UNCHANGED outsideForm

SpecForm == InitForm /\ [][NextForm]_vars

(***************************************************************************)
(* The console log display                                                 *)
(***************************************************************************)
\* The displays rendered in a run, and the console calls made in it
MaxDisplays == 2
MaxWrites == 2

\* addLog keeps prev.slice(-49) and the new entry
KeptLogs == 49

\* What the application calls the console with
Arguments == {<<"Image uploaded successfully">>, <<"Upload failed:", "quota exceeded">>}

InitConsole == NoCalls /\ NoText /\ NoPicture /\ NoReader /\ Mounted /\ Rest

\* args.map(String).join(' '), of strings
RECURSIVE JoinSpaced(_)
JoinSpaced(args) ==
    IF Len(args) = 0 THEN ""
    ELSE IF Len(args) = 1 THEN args[1]
    ELSE args[1] \o " " \o JoinSpaced(Tail(args))

\* prev.slice(-49)
LastLogs(prev) ==
    IF Len(prev) > KeptLogs THEN SubSeq(prev, Len(prev) - KeptLogs + 1, Len(prev))
    ELSE prev

\* The entry addLog makes, but for its id and timestamp (the clock and a
\* random number); an array is written as a record of its items
LogEntry(level, args) ==
    [level |-> level,
     message |-> JoinSpaced(args),
     data |-> IF Len(args) > 1 THEN [items |-> Tail(args)] ELSE UndefinedObject]

\* The functions that run when method is called, each listed when its own
\* part is done: a closure calls the function it captured, then addLog
RECURSIVE Bodies(_)
Bodies(method) ==
    IF method = HostMethod THEN <<HostMethod>>
    ELSE Bodies(Tail(method)) \o <<method>>

\* method is or calls a closure of display d
Wraps(method, d) == \E i \in 1..Len(method) : method[i] = d

\* The effect of a display being mounted: the four methods are captured and
\* replaced by closures over them
Mount ==
    /\ Len(displays) < MaxDisplays
    /\ LET d == Len(displays) + 1
       IN  /\ displays' = Append(displays,
                              [mounted |-> TRUE, original |-> console, logs |-> <<>>])
           /\ console' = [level \in Levels |-> <<d>> \o console[level]]
    /\ UNCHANGED <<written, ran>>

\* The effect's cleanup, as display d is unmounted: the four methods are set
\* to what the effect captured
Unmount(d) ==
    /\ d \in DOMAIN displays
    /\ displays[d].mounted
    /\ console' = displays[d].original
    /\ displays' = [displays EXCEPT ![d].mounted = FALSE, ![d].logs = <<>>]
    /\ UNCHANGED <<written, ran>>

\* clearLogs
ClearLogs(d) ==
    /\ d \in DOMAIN displays
    /\ displays[d].mounted
    /\ displays[d].logs /= <<>>
    /\ displays' = [displays EXCEPT ![d].logs = <<>>]
    /\ UNCHANGED <<console, written, ran>>

\* The application calls console[level](...args): the installed function
\* runs, and setLogs of a display no longer mounted does nothing
ConsoleCall(level, args) ==
    /\ Len(written) < MaxWrites
    /\ LET method == console[level]
           bodies == Bodies(method)
       IN  /\ ran' = [i \in 1..Len(bodies) |->
                        [method |-> bodies[i], level |-> level, args |-> args]]
           /\ written' = Append(written, [level |-> level, args |-> args])
           /\ displays' =
                [d \in DOMAIN displays |->
                    IF displays[d].mounted /\ Wraps(method, d)
                    THEN [displays[d] EXCEPT
                            !.logs = Append(LastLogs(@), LogEntry(level, args))]
                    ELSE displays[d]]
    /\ UNCHANGED console

outsideConsole == <<enrichment, textVars, cropVars, pageVars, feedVars, storeVars, formVars>>

NextConsole ==
    \/ Mount /\ UNCHANGED outsideConsole
    \/ \E d \in 1..MaxDisplays : Unmount(d) /\ UNCHANGED outsideConsole
    \/ \E d \in 1..MaxDisplays : ClearLogs(d) /\ UNCHANGED outsideConsole
    \/ \E level \in Levels, args \in Arguments :
          ConsoleCall(level, args) /\ UNCHANGED outsideConsole

SpecConsole == InitConsole /\ [][NextConsole]_vars

(***************************************************************************)
(* The module's exports together                                           *)
(***************************************************************************)
\* The one primary body drawn when calls for different places run together
OneNominatimData == {[address |-> CountryOnlyAddress]}

\* The calls are for one place, but for the last, made for the same or another
PlacesOf(c) == IF c = MaxCalls THEN Coordinates ELSE {SameCoordinate}

\* Either the lookups are called, concurrently and for either place, or a
\* display helper is applied to a stored address: the module has no other
\* export, and the helpers never call the lookups.
NextModule ==
    \/ /\ NoText
       /\ \E c \in Calls :
           \/ \E xy \in PlacesOf(c) : Call(c, xy)
           \/ NominatimFetched(c)
           \/ NominatimParsed(c, OneNominatimData)
           \/ BigDataCloudFetched(c)
           \/ BigDataCloudParsed(c, FewBigDataCloudData)
           \/ Return(c)
    \/ /\ NoCalls
       /\ NextText

SpecModule == (Init \/ InitText) /\ [][NextModule]_vars

(***************************************************************************)
(* Properties                                                              *)
(***************************************************************************)
AddressComponentsKeys ==
    {"streetNumber", "streetName", "neighborhood", "city", "state", "country",
     "postalCode", "formattedAddress", "distanceFromStreet"}

IsAddressComponents(v) == v /= Null /\ DOMAIN v \subseteq AddressComponentsKeys

HasReturned(c) == pc[c] = "returned"

\* The response call c's lookup ended in
NominatimResp(c) == nominatim[c].resp

BigDataCloudResp(c) == bigDataCloud[c].resp

\* network error, non-OK status or parse error
Failures == {NetworkError, HttpError, ParseError}

\* The primary answered with an address object
PrimaryAddressed(c) ==
    /\ NominatimResp(c).kind = "json"
    /\ NominatimResp(c).data /= Null
    /\ "address" \in DOMAIN NominatimResp(c).data
    /\ NominatimResp(c).data.address /= Null

\* The primary failed, or answered without an address
PrimaryNothing(c) == ~PrimaryAddressed(c)

\* The secondary answered with a body that is an object
SecondaryAnswered(c) ==
    BigDataCloudResp(c).kind = "json" /\ BigDataCloudResp(c).data /= Null

\* some field of the object is a non-empty string
NonEmptyObject(obj) == \E k \in DOMAIN obj : Truthy(obj[k])

\* The non-empty ones of the given segments, joined by ", "
JoinNonEmpty(segments) == Join(SelectSeq(segments, Truthy))

\* C1: getEnhancedAddress never rejects: whatever the two lookups ended in
\* (data, an empty body, a non-OK status, a network error, a parse error), the
\* promise it returned is fulfilled, with an AddressComponents object or null;
\* until it returns the promise is pending.
EnrichNeverRejects ==
    \A c \in Calls :
        /\ HasReturned(c) =>
              /\ outcome[c].status = "fulfilled"
              /\ outcome[c].value = Null \/ IsAddressComponents(outcome[c].value)
        /\ ~HasReturned(c) => outcome[c] = Pending

\* C1 witness: a call has returned after a parse error of the primary and a
\* non-OK status of the secondary.
EnrichNeverRejectsWitness ==
    \E c \in Calls :
        /\ HasReturned(c)
        /\ NominatimResp(c) = ParseError
        /\ BigDataCloudResp(c) = HttpError
        /\ outcome[c].status = "fulfilled"

\* C2: when the primary answered with a non-empty address object, the result
\* is the mapping of that object alone: city, state and country are the
\* primary's (undefined where the primary has none), whatever the secondary
\* returned.
PrimaryAlwaysWins ==
    \A c \in Calls :
        (HasReturned(c) /\ PrimaryAddressed(c)
            /\ NonEmptyObject(NominatimResp(c).data.address)) =>
            LET a == NominatimResp(c).data.address
                v == outcome[c].value
            IN  /\ outcome[c] = Fulfilled(NominatimComponents(a))
                /\ v.city = Or(Or(a.city, a.town), a.village)
                /\ v.state = a.state
                /\ v.country = a.country
                /\ v.streetNumber = a.house_number
                /\ v.postalCode = a.postcode

\* C2 witness: the primary returned only a country, the secondary a full
\* locality, and the call returned without a city.
PrimaryAlwaysWinsWitness ==
    \E c \in Calls :
        /\ HasReturned(c)
        /\ PrimaryAddressed(c)
        /\ NominatimResp(c).data.address = CountryOnlyAddress
        /\ SecondaryAnswered(c)
        /\ Get(BigDataCloudResp(c).data, "locality") = "Chicago"
        /\ outcome[c].value.city = Undefined
        /\ outcome[c].value.country = "USA"

\* C3: when the primary failed or answered without an address and the
\* secondary answered, the result is the mapping of the secondary's body:
\* city = locality, state = principalSubdivision, country = countryName,
\* formattedAddress = the non-empty ones of the three joined by ", ", and no
\* street or neighborhood field.
SecondaryFallback ==
    \A c \in Calls :
        (HasReturned(c) /\ PrimaryNothing(c) /\ SecondaryAnswered(c)) =>
            LET d == BigDataCloudResp(c).data
                v == outcome[c].value
            IN  /\ outcome[c].status = "fulfilled"
                /\ v /= Null
                /\ v.city = Get(d, "locality")
                /\ v.state = Get(d, "principalSubdivision")
                /\ v.country = Get(d, "countryName")
                /\ v.formattedAddress =
                      JoinNonEmpty(<<Get(d, "locality"), Get(d, "principalSubdivision"),
                                     Get(d, "countryName")>>)
                /\ DOMAIN v \cap {"streetNumber", "streetName", "neighborhood",
                                  "postalCode"} = {}

\* C3 witness: the primary's status was not OK, the secondary had no locality,
\* and the call returned the secondary's state and country.
SecondaryFallbackWitness ==
    \E c \in Calls :
        /\ HasReturned(c)
        /\ NominatimResp(c) = HttpError
        /\ SecondaryAnswered(c)
        /\ outcome[c].value /= Null
        /\ outcome[c].value.city = Undefined
        /\ outcome[c].value.formattedAddress = "Illinois, United States of America (the)"

\* C4: when both lookups failed (network error, non-OK status or parse error,
\* in any combination), the call resolves to null.
BothFailYieldsNull ==
    \A c \in Calls :
        (HasReturned(c) /\ NominatimResp(c) \in Failures
            /\ BigDataCloudResp(c) \in Failures) =>
            outcome[c] = Fulfilled(Null)

\* C4 witness: a call returned after a network error of the primary and a
\* parse error of the secondary.
BothFailYieldsNullWitness ==
    \E c \in Calls :
        /\ HasReturned(c)
        /\ NominatimResp(c) = NetworkError
        /\ BigDataCloudResp(c) = ParseError
        /\ outcome[c] = Fulfilled(Null)

\* The primary yielded no address data: it failed, answered without an
\* address, or its address object has no field
PrimaryNoData(c) ==
    PrimaryNothing(c) \/ ~NonEmptyObject(NominatimResp(c).data.address)

\* The secondary yielded no address data: it failed, or its body has no
\* locality, principalSubdivision or countryName
SecondaryNoData(c) ==
    \/ ~SecondaryAnswered(c)
    \/ /\ ~Truthy(Get(BigDataCloudResp(c).data, "locality"))
       /\ ~Truthy(Get(BigDataCloudResp(c).data, "principalSubdivision"))
       /\ ~Truthy(Get(BigDataCloudResp(c).data, "countryName"))

\* C5: when neither provider yielded any address data (each failed or
\* answered with an empty payload), the call resolves to null.
EmptyResponsesYieldNull ==
    \A c \in Calls :
        (HasReturned(c) /\ PrimaryNoData(c) /\ SecondaryNoData(c)) =>
            outcome[c] = Fulfilled(Null)

\* Both lookups of call c have been issued
BothIssued(c) == nominatim[c].stage /= "none" /\ bigDataCloud[c].stage /= "none"

\* Both lookups of call c have settled
BothSettled(c) == nominatim[c].stage = "settled" /\ bigDataCloud[c].stage = "settled"

\* C6: a call issues both lookups in one step, before it waits (a started
\* call has both issued, an idle call none), and it has returned, or its
\* promise has left pending, only when both lookups have settled.
ReturnsOnlyWhenBothSettled ==
    \A c \in Calls :
        /\ pc[c] /= "idle" => BothIssued(c)
        /\ pc[c] = "idle" => nominatim[c] = NotIssued /\ bigDataCloud[c] = NotIssued
        /\ HasReturned(c) => BothSettled(c)
        /\ outcome[c] /= Pending => BothSettled(c)

\* C6 witness: the primary settled first, with an address, the secondary
\* after it, and the call returned the primary's result.
ReturnsOnlyWhenBothSettledWitness ==
    \E c \in Calls :
        /\ HasReturned(c)
        /\ settleOrder[c] = <<1, 2>>
        /\ PrimaryAddressed(c)
        /\ BigDataCloudResp(c) = ParseError
        /\ outcome[c].value /= Null

\* C7: the result is a function of the two lookups' final responses alone:
\* two calls whose lookups ended in the same responses return the same value
\* in whichever order their lookups settled, and a failed lookup leaves the
\* value taken from the other provider as that provider's mapping.
OutcomeIndependentOfSettleOrder ==
    /\ \A c, d \in Calls :
          (HasReturned(c) /\ HasReturned(d)
              /\ NominatimResp(c) = NominatimResp(d)
              /\ BigDataCloudResp(c) = BigDataCloudResp(d)) =>
              outcome[c] = outcome[d]
    /\ \A c \in Calls :
          /\ (HasReturned(c) /\ NominatimResp(c) \in Failures /\ SecondaryAnswered(c)) =>
                outcome[c] = Fulfilled(BigDataCloudComponents(BigDataCloudResp(c).data))
          /\ (HasReturned(c) /\ BigDataCloudResp(c) \in Failures /\ PrimaryAddressed(c)) =>
                outcome[c] = Fulfilled(NominatimComponents(NominatimResp(c).data.address))

\* C7 witness: two calls returned after the same responses, both providers
\* with data, the primary settling first in one and last in the other.
OutcomeIndependentOfSettleOrderWitness ==
    \E c, d \in Calls :
        /\ HasReturned(c) /\ HasReturned(d)
        /\ PrimaryAddressed(c) /\ SecondaryAnswered(c)
        /\ NominatimResp(c) = NominatimResp(d)
        /\ BigDataCloudResp(c) = BigDataCloudResp(d)
        /\ settleOrder[c] = <<1, 2>>
        /\ settleOrder[d] = <<2, 1>>

\* The segments of a primary address as the mapping names them
StreetLine(number, street) ==
    IF Truthy(number) /\ Truthy(street) THEN number \o " " \o street
    ELSE IF Truthy(street) THEN street
    ELSE ""

HouseNumberOnlyAddress ==
    [house_number |-> "233", road |-> Undefined, pedestrian |-> Undefined,
     footway |-> Undefined, neighbourhood |-> Undefined, suburb |-> Undefined,
     city |-> Undefined, town |-> Undefined, village |-> Undefined,
     state |-> Undefined, country |-> Undefined, postcode |-> Undefined]

\* C8 as stated: the street line is built from the road field alone.
FormattedAddressFromRoad ==
    \A c \in Calls :
        (HasReturned(c) /\ PrimaryAddressed(c)) =>
            LET a == NominatimResp(c).data.address
                v == outcome[c].value
            IN  v.formattedAddress =
                    JoinNonEmpty(<<StreetLine(a.house_number, a.road), v.neighborhood,
                                   v.city, v.state, v.country>>)

\* C8, amended: formattedAddress of a primary result is the street line
\* (house number + " " + street when both exist, else the street alone, where
\* the street is the road, else the pedestrian, else the footway field),
\* neighborhood, city, state, country, in this order, empty segments omitted,
\* joined by ", "; a house number without any street contributes nothing.
FormattedAddressSegments ==
    \A c \in Calls :
        (HasReturned(c) /\ PrimaryAddressed(c)) =>
            LET a == NominatimResp(c).data.address
                v == outcome[c].value
            IN  /\ v.formattedAddress =
                      JoinNonEmpty(<<StreetLine(a.house_number,
                                                Or(Or(a.road, a.pedestrian), a.footway)),
                                     Or(a.neighbourhood, a.suburb),
                                     Or(Or(a.city, a.town), a.village),
                                     a.state, a.country>>)
                /\ a = WackerAddress =>
                      v.formattedAddress = "233 S Wacker Dr, Chicago, Illinois, USA"
                /\ a = HouseNumberOnlyAddress => v.formattedAddress = ""

\* C8 witness: the call returned for the address 233 S Wacker Dr.
FormattedAddressSegmentsWitness ==
    \E c \in Calls :
        /\ HasReturned(c)
        /\ PrimaryAddressed(c)
        /\ NominatimResp(c).data.address = WackerAddress
        /\ outcome[c].value.formattedAddress = "233 S Wacker Dr, Chicago, Illinois, USA"

\* C9: every non-null result, of either provider, with or without street
\* information, has a distanceFromStreet key holding null.
DistanceFromStreetIsNull ==
    \A c \in Calls :
        (HasReturned(c) /\ outcome[c].status = "fulfilled" /\ outcome[c].value /= Null) =>
            /\ "distanceFromStreet" \in DOMAIN outcome[c].value
            /\ outcome[c].value.distanceFromStreet = JsNull

\* C9 witness: a result of the primary with a street name.
DistanceFromStreetIsNullWitness ==
    \E c \in Calls :
        /\ HasReturned(c)
        /\ PrimaryAddressed(c)
        /\ outcome[c].value.streetName = "S Wacker Dr"
        /\ outcome[c].value.distanceFromStreet = JsNull

\* The calls made so far
Started == {c \in Calls : pc[c] /= "idle"}

RECURSIVE SumOver(_, _)
SumOver(f, S) ==
    IF S = {} THEN 0
    ELSE LET x == CHOOSE y \in S : TRUE IN f[x] + SumOver(f, S \ {x})

\* Requests issued to provider p, over all coordinates
IssuedTo(p) == SumOver(fetches[p], Coordinates)

\* C10: after k calls, in any interleaving and whatever failed, each provider
\* has been sent exactly k requests (2k in all), and for each coordinate as
\* many as there were calls for it.
TwoRequestsPerCall ==
    /\ \A p \in Providers : IssuedTo(p) = Cardinality(Started)
    /\ IssuedTo("nominatim") + IssuedTo("bigdatacloud") = 2 * Cardinality(Started)
    /\ \A p \in Providers : \A xy \in Coordinates :
          fetches[p][xy] = Cardinality({c \in Started : coord[c] = xy})

\* C10 witness: two calls for the same coordinate, one returned after a
\* network error, the other with a lookup in flight; four requests.
TwoRequestsPerCallWitness ==
    \E c, d \in Calls :
        /\ c /= d
        /\ coord[c] = coord[d]
        /\ HasReturned(c)
        /\ NominatimResp(c) = NetworkError
        /\ pc[d] = "awaiting"
        /\ nominatim[d].stage = "json"
        /\ IssuedTo("nominatim") + IssuedTo("bigdatacloud") = 4

\* The first of the values that is there (neither undefined nor empty)
RECURSIVE FirstPresent(_)
FirstPresent(values) ==
    IF values = <<>> THEN Undefined
    ELSE IF Truthy(Head(values)) THEN Head(values)
    ELSE FirstPresent(Tail(values))

\* What getDisplayAddress may choose from, in the order of preference
DisplayPreference(address, fallbackAddress) ==
    <<IF Truthy(Get(address, "streetNumber")) /\ Truthy(Get(address, "streetName"))
      THEN Get(address, "streetNumber") \o " " \o Get(address, "streetName")
      ELSE Undefined,
      Get(address, "streetName"),
      Get(address, "neighborhood"),
      Get(address, "city"),
      Get(address, "formattedAddress"),
      fallbackAddress,
      "Location unknown">>

\* C11: getDisplayAddress returns the first that is available of: street number
\* and street name joined by a space (both present), the street name, the
\* neighborhood, the city, formattedAddress, the fallback, "Location unknown".
\* Null components count as no field present: (null, "X") gives "X" and
\* (null, undefined) gives "Location unknown". With number and name both
\* present the result is the street line whatever the fallback is.
DisplayAddressPrecedence ==
    displayAddress /= NotRun =>
        /\ displayAddress = FirstPresent(DisplayPreference(components, fallback))
        /\ (components = Null /\ fallback = "X") => displayAddress = "X"
        /\ (components = Null /\ fallback = Undefined) =>
               displayAddress = "Location unknown"
        /\ (Get(components, "streetNumber") = "123"
            /\ Get(components, "streetName") = "Main St") =>
               displayAddress = "123 Main St"

\* Both a neighborhood and a city, no street: the neighborhood is shown
DisplayAddressPrecedenceWitness ==
    /\ components /= Null
    /\ ~Truthy(Get(components, "streetName"))
    /\ Get(components, "neighborhood") = "Loop, Chicago"
    /\ Get(components, "city") = "Main St"
    /\ fallback = "X"
    /\ displayAddress = "Loop, Chicago"

\* String.prototype.split(", ")
RECURSIVE Split(_)
Split(s) ==
    LET hits == {i \in 1..(Len(s) - 1) : SubSeq(s, i, i + 1) = ", "}
    IN  IF hits = {} THEN <<s>>
        ELSE LET i == CHOOSE j \in hits : \A k \in hits : j <= k
             IN  <<SubSeq(s, 1, i - 1)>> \o Split(SubSeq(s, i + 2, Len(s)))

NoRepeat(segments) ==
    \A i, j \in 1..Len(segments) : segments[i] = segments[j] => i = j

\* The fields getDescriptiveLocation builds its parts from
PartFields == {"streetNumber", "streetName", "neighborhood", "city", "state"}

\* One of the fields that give a part is there
SomePart(address) ==
    \E k \in {"streetName", "neighborhood", "city", "state"} : Truthy(Get(address, k))

\* No field that gives a part holds the separator
NoSeparatorInParts(address) ==
    \A k \in PartFields :
        Truthy(Get(address, k)) => Len(Split(Get(address, k))) = 1

RECURSIVE FirstOccurrences(_)
FirstOccurrences(s) ==
    IF s = <<>> THEN <<>>
    ELSE LET front == SubSeq(s, 1, Len(s) - 1)
             last == s[Len(s)]
         IN  IF \E i \in 1..Len(front) : front[i] = last
             THEN FirstOccurrences(front)
             ELSE Append(FirstOccurrences(front), last)

\* Street line, neighborhood, city, state: those present, each once
DescriptiveSegments(address) ==
    FirstOccurrences(SelectSeq(<<StreetLine(Get(address, "streetNumber"),
                                            Get(address, "streetName")),
                                 Get(address, "neighborhood"),
                                 Get(address, "city"),
                                 Get(address, "state")>>, Truthy))

\* C13: getDescriptiveLocation returns street line (number + name, or the name
\* alone), neighborhood, city, state, in that order, each only if present and
\* not equal to a segment already added, joined by ", "; with no segment it
\* returns formattedAddress if non-empty, else the fallback if non-empty, else
\* "Location unknown"; country and postal code are never among the segments.
DescriptiveLocationSegments ==
    descriptiveLocation /= NotRun =>
        LET segments == DescriptiveSegments(components)
        IN  /\ segments /= <<>> => descriptiveLocation = Join(segments)
            /\ segments = <<>> =>
                   descriptiveLocation =
                       FirstPresent(<<Get(components, "formattedAddress"),
                                      fallback, "Location unknown">>)
            /\ (segments /= <<>> /\ NoSeparatorInParts(components)) =>
                   \A i \in 1..Len(Split(descriptiveLocation)) :
                       Split(descriptiveLocation)[i] \notin {"USA", "60606"}

\* Neighborhood, city and state without a street, in a stored address that
\* has a country and a postal code
DescriptiveLocationSegmentsWitness ==
    /\ components /= Null
    /\ ~Truthy(Get(components, "streetName"))
    /\ Get(components, "neighborhood") = "Chicago"
    /\ Get(components, "city") = "Main St"
    /\ Get(components, "state") = "Illinois"
    /\ Get(components, "country") = "USA"
    /\ Get(components, "postalCode") = "60606"
    /\ descriptiveLocation = "Chicago, Main St, Illinois"

ElseOf(a, b, c) == IF Truthy(a) THEN a ELSE IF Truthy(b) THEN b ELSE c

\* C15: the primary provider's fields map as: streetNumber = house_number;
\* streetName = road, else pedestrian, else footway; neighborhood =
\* neighbourhood, else suburb; city = city, else town, else village; state,
\* country, postalCode = state, country, postcode. A primary response without
\* an address key is no result: the call returns what the secondary gave.
PrimaryFieldMapping ==
    /\ (HasReturned(1) /\ PrimaryAddressed(1)) =>
           LET a == NominatimResp(1).data.address
               v == outcome[1].value
           IN  /\ v.streetNumber = a.house_number
               /\ v.streetName = ElseOf(a.road, a.pedestrian, a.footway)
               /\ v.neighborhood = ElseOf(a.neighbourhood, a.suburb, a.suburb)
               /\ v.city = ElseOf(a.city, a.town, a.village)
               /\ v.state = a.state
               /\ v.country = a.country
               /\ v.postalCode = a.postcode
    /\ (HasReturned(1) /\ NominatimResp(1) = Body([error |-> "Unable to geocode"])) =>
           outcome[1] = getBigDataCloudAddress(BigDataCloudResp(1))

\* An address with an empty road, a pedestrian way, a suburb and a town
PrimaryFieldMappingWitness ==
    /\ HasReturned(1)
    /\ PrimaryAddressed(1)
    /\ NominatimResp(1).data.address.road = ""
    /\ NominatimResp(1).data.address.neighbourhood = "Loop"
    /\ NominatimResp(1).data.address.suburb = "Near West Side"
    /\ NominatimResp(1).data.address.city = Undefined
    /\ outcome[1].value.streetName = "Riverwalk"
    /\ outcome[1].value.neighborhood = "Loop"
    /\ outcome[1].value.city = "Cicero"

RECURSIVE Concatenated(_)
Concatenated(ps) ==
    IF ps = <<>> THEN <<>> ELSE ps[1].result.images \o Concatenated(Tail(ps))

\* C17: getImages(pageSize, lastDoc) returns at most pageSize images, in
\* descending createdAt order, all strictly after the cursor when one is
\* given, and as new cursor the last document of the page (undefined for an
\* empty page); so a reader that starts without a cursor and follows the
\* returned cursors, with no write meanwhile, gets every stored image exactly
\* once.
PagesCoverCollectionOnce ==
    /\ \A k \in 1..Len(pages) :
           LET page == pages[k].result.images
               after == pages[k].lastDoc
           IN  /\ Len(page) <= pageSize
               /\ \A i, j \in 1..Len(page) :
                      i < j => images[page[i]].createdAt >= images[page[j]].createdAt
               /\ after /= NoDoc =>
                      \A i \in 1..Len(page) :
                          /\ page[i] /= after
                          /\ images[page[i]].createdAt <= images[after].createdAt
               /\ pages[k].result.lastDoc =
                      (IF page = <<>> THEN NoDoc ELSE page[Len(page)])
               /\ pages[k].lastDoc = (IF k = 1 THEN NoDoc ELSE pages[k - 1].result.lastDoc)
    /\ NoRepeat(Concatenated(pages))
    /\ Finished =>
           {Concatenated(pages)[i] : i \in 1..Len(Concatenated(pages))} = DOMAIN images

\* Three images, two of them created at the same time, read in pages of two:
\* a full page, a page of one, and the empty page that ends the reading
PagesCoverCollectionOnceWitness ==
    /\ DOMAIN images = {1, 2, 3}
    /\ images[1].createdAt = images[2].createdAt
    /\ images[3].createdAt > images[1].createdAt
    /\ pageSize = 2
    /\ Len(pages) = 3
    /\ pages[1].result.images = <<3, 2>>
    /\ pages[2].result = [images |-> <<1>>, lastDoc |-> 1]
    /\ pages[3].result = [images |-> <<>>, lastDoc |-> NoDoc]

\* C18: the home feed's image list never holds two entries with the same id,
\* after the initial load and after any pagination loads, whether a page
\* overlaps earlier pages, repeats an image, or comes from a second call made
\* with the same cursor.
FeedHasNoDuplicateId ==
    \A i, j \in 1..Len(home.images) : home.images[i] = home.images[j] => i = j

\* Three images shown, none twice, while a pagination call is still awaited
FeedHasNoDuplicateIdWitness ==
    /\ Len(home.images) = 3
    /\ home.images[1] /= "1"
    /\ home.lastDoc = home.images[1]
    /\ Awaiting(inFlight, Cursors) = 1

\* A step in which a pagination call getImages(10, lastDoc) is started
StartsPageFetch == Awaiting(inFlight', Cursors) > Awaiting(inFlight, Cursors)

\* A step in which a getImages call of the feed comes back
Settles ==
    \/ initialLoad' /= initialLoad
    \/ Awaiting(inFlight', Cursors) < Awaiting(inFlight, Cursors)

\* C19: feed pagination stops at the end of the data: a page fetch is started
\* only when loading = false, initialLoading = false and hasMore = true (and
\* the loader is visible); a load that returns fewer images than a full page,
\* or none, or falls back to the mock images, sets hasMore to false; and once
\* hasMore is false no getImages call is made any more.
PaginationStopsAtEnd ==
    /\ [][StartsPageFetch =>
              ~home.loading /\ ~home.initialLoading /\ home.hasMore]_vars
    /\ [][(Settles /\ (received'.status = "fulfilled" =>
                            Len(received'.value) < FeedPageSize))
              => ~home'.hasMore]_vars
    /\ [][~home.hasMore => (~home'.hasMore /\ ~StartsPageFetch)]_vars

\* C20: at most one pagination fetch of the home feed is in flight at any
\* time, whatever intersection events arrive between the start of a
\* getImages(10, lastDoc) call and its completion.
OnePageFetchInFlight == Awaiting(inFlight, Cursors) <= 1

\* A step in which a pagination call comes back rejected
PageFetchFails ==
    /\ Awaiting(inFlight', Cursors) < Awaiting(inFlight, Cursors)
    /\ received'.status = "rejected"

Range(list) == {list[i] : i \in 1..Len(list)}

Loaders == {"getImages", "getImageById", "getImagesByLocation"}

\* A step in which a loader returns
LoadReturns == call.op \in Loaders /\ returned'.status = "fulfilled"

\* The images a loader's promise is fulfilled with
Loaded(op, promise) ==
    IF op = "getImages" THEN Range(promise.value.images)
    ELSE IF op = "getImageById"
           THEN (IF promise.value = Null THEN {} ELSE {promise.value})
    ELSE Range(promise.value)

\* The migrations of a list that are for an image, with its coordinates, and
\* have not got their address yet
Unfinished(list, image) ==
    {i \in 1..Len(list) :
        /\ list[i].imageId = image.id
        /\ Present(image.location)
        /\ list[i].lat = image.location.lat
        /\ list[i].lng = image.location.lng
        /\ list[i].await = "getEnhancedAddress"}

\* How many migrations there are for an image, whatever their arguments
Running(list, image) == Cardinality({i \in 1..Len(list) : list[i].imageId = image.id})

\* C22: whenever one of the three loaders returns an image that has location
\* coordinates and no stored enhancedAddress, a migration has been started
\* for that image with its id and its coordinates and is still unfinished
\* when the load returns; for an image with an enhancedAddress none is
\* started.
LoadsStartMigration ==
    [][LoadReturns =>
          \A image \in Loaded(call.op, returned') :
             IF Present(image.location) /\ ~Present(image.enhancedAddress)
               THEN /\ Running(migrating', image) = Running(migrating, image) + 1
                    /\ Cardinality(Unfinished(migrating', image))
                         = Cardinality(Unfinished(migrating, image)) + 1
               ELSE Running(migrating', image) = Running(migrating, image)]_vars

\* A step of a migration: it gets its address, or it settles
MigrationStep == migrating' /= migrating /\ Len(migrating') <= Len(migrating)

\* The migrations suspended in updateDoc for a document
Updating(id) ==
    {i \in 1..Len(migrating) :
        migrating[i].imageId = id /\ migrating[i].await = "updateDoc"}

\* C23: a migration never rejects and leaves the client's call and its
\* promise alone; the only write it makes is to its image's document, of an
\* address enrichment returned that is not null, into enhancedAddress, with
\* updatedAt, every other field and every other document staying as they
\* are; after a null from enrichment, and after a failed update (the
\* document deleted meanwhile), nothing is written and the migration is
\* fulfilled.
MigrationNeverFails ==
    [][MigrationStep =>
          /\ migrated'.status /= "rejected"
          /\ call' = call
          /\ returned' = returned
          /\ bucket' = bucket
          /\ DOMAIN db' = DOMAIN db
          /\ \A id \in DOMAIN db :
                \/ db'[id] = db[id]
                \/ /\ \E i \in Updating(id) :
                         /\ Present(migrating[i].enhancedAddress)
                         /\ migrating[i].enhancedAddress
                              \in EnrichmentResults(migrating[i].lat, migrating[i].lng)
                         /\ db'[id].enhancedAddress = migrating[i].enhancedAddress
                   /\ DOMAIN db'[id] = DOMAIN db[id]
                   /\ \A field \in DOMAIN db[id] \ {"enhancedAddress", "updatedAt"} :
                         db'[id][field] = db[id][field]]_vars

\* A migration has written the address of a document that had none, and has
\* settled
MigrationNeverFailsWitness ==
    /\ migrated = Fulfilled(Undefined)
    /\ 2 \in DOMAIN db
    /\ db[2].enhancedAddress = EnhancedAddressAt(Chicago.lat, Chicago.lng)
    /\ db[2].createdAt = Before
    /\ db[2].updatedAt = Today
    /\ db[2].title = "Pier"

\* A step in which deleteImage settles
DeleteSettles == call.op = "deleteImage" /\ returned'.status /= "pending"

\* C24: deleteImage(id) deletes the storage object first and the document
\* only after that deletion succeeded: the only step that removes a
\* document is the deleteDoc of a deleteImage for that document whose
\* object is gone already, and it fulfils the call; when the call is
\* fulfilled neither the document nor the object exists; when the image is
\* not found or its src gives no storage path the call goes no further; and
\* a call that rejects, at whichever await, rejects with 'Failed to delete
\* image' and has deleted no document.
DeleteObjectThenDocument ==
    [][/\ DOMAIN db' /= DOMAIN db /\ DOMAIN db' \subseteq DOMAIN db =>
             /\ call.op = "deleteImage"
             /\ call.await = "deleteDoc"
             /\ DOMAIN db \ DOMAIN db' = {call.id}
             /\ call.fullPath \notin bucket
             /\ returned' = Fulfilled(Undefined)
       /\ bucket' /= bucket /\ bucket' \subseteq bucket =>
             /\ call.op = "deleteImage"
             /\ call.await = "deleteObject"
             /\ bucket \ bucket' = {call.fullPath}
             /\ db' = db
       /\ DeleteSettles /\ returned'.status = "fulfilled" =>
             /\ call.id \notin DOMAIN db'
             /\ call.fullPath \notin bucket'
       /\ DeleteSettles /\ returned'.status = "rejected" =>
             /\ returned'.reason = "Failed to delete image"
             /\ db' = db
       /\ /\ call.op = "deleteImage"
          /\ call.await = "getImageById"
          /\ call' /= call
          /\ \/ call.id \notin DOMAIN db
             \/ StoragePath(db[call.id].src) = NoMatch
          => /\ returned'.status = "rejected"
             /\ bucket' = bucket]_vars

\* deleteImage(1) succeeded: the document with id 1 and its object are gone
DeleteObjectThenDocumentWitness ==
    /\ call = NoCall
    /\ returned.status = "fulfilled"
    /\ 2 \in DOMAIN db
    /\ 1 \in named \ DOMAIN db
    /\ "images/1600000000000_a1b.jpg" \notin bucket

\* The objects of the bucket whose path a src holds, plainly or URL-encoded
ObjectsIn(src) ==
    {path \in bucket : \/ IndexOf(src, path, 1) > 0
                       \/ IndexOf(src, encodeURIComponent(path), 1) > 0}

\* getImageById(id) gives the document of that id, or null without one
ReturnsRequestedImage ==
    call.op = "getImageById" /\ returned'.status = "fulfilled" =>
        IF call.id \in DOMAIN db
          THEN /\ returned'.value /= Null
               /\ returned'.value.id = call.id
               /\ returned'.value.src = db[call.id].src
               /\ returned'.value.title = db[call.id].title
          ELSE returned'.value = Null

\* An object that leaves the bucket is the object of the image deleteImage
\* was called for
RemovesOwnObject ==
    bucket' /= bucket /\ bucket' \subseteq bucket =>
        /\ call.op = "deleteImage"
        /\ call.id \in DOMAIN db
        /\ bucket \ bucket' \subseteq ObjectsIn(db[call.id].src)

\* C25: getImageById(id) returns the image whose document id is the
\* requested id, or null when there is no such document; and the storage
\* object deleteImage(id) removes is the object of that image, never that
\* of another.
LookupByRequestedId == [][ReturnsRequestedImage /\ RemovesOwnObject]_vars

\* The document a step creates
Created == CHOOSE id \in DOMAIN db' : id \notin DOMAIN db

\* C26: uploadImage stores the file, then obtains its download URL, then
\* creates the document: the only step that creates a document is the
\* addDoc of an uploadImage whose file is in the bucket and whose download
\* URL is the document's src; that step fulfils the call with the id of the
\* created document and the given title, location and enhancedAddress; a
\* file enters the bucket only at uploadBytes; and a call that rejects, at
\* whichever await, rejects with 'Failed to upload image' and has created
\* no document.
UploadStoresThenDescribes ==
    [][/\ DOMAIN db' /= DOMAIN db /\ DOMAIN db \subseteq DOMAIN db' =>
             /\ call.op = "uploadImage"
             /\ call.await = "addDoc"
             /\ DOMAIN db' \ DOMAIN db = {Created}
             /\ Created \notin named
             /\ call.fullPath \in bucket'
             /\ call.downloadURL = getDownloadURL(call.fullPath)
             /\ db'[Created].src = call.downloadURL
             /\ StoragePath(db'[Created].src) = call.fullPath
             /\ returned'.status = "fulfilled"
             /\ returned'.value = ImageOf(db', Created)
             /\ returned'.value.id = Created
             /\ returned'.value.title = call.imageData.title
             /\ returned'.value.location = call.imageData.location
             /\ returned'.value.enhancedAddress = call.imageData.enhancedAddress
       /\ bucket' /= bucket /\ bucket \subseteq bucket' =>
             /\ call.op = "uploadImage"
             /\ call.await = "uploadBytes"
             /\ bucket' \ bucket = {call.fullPath}
             /\ db' = db
       /\ call.op = "uploadImage" /\ call'.op = "uploadImage" /\ call'.await = "addDoc" =>
             /\ call.await \in {"getDownloadURL", "addDoc"}
             /\ call.fullPath \in bucket
       /\ call.op = "uploadImage" /\ returned'.status = "fulfilled" =>
             DOMAIN db' /= DOMAIN db
       /\ call.op = "uploadImage" /\ returned'.status = "rejected" =>
             /\ returned'.reason = "Failed to upload image"
             /\ db' = db]_vars

\* An upload with an enhanced address has succeeded
UploadStoresThenDescribesWitness ==
    /\ call = NoCall
    /\ returned.status = "fulfilled"
    /\ 3 \in DOMAIN db
    /\ db[3].title = "Skyline"
    /\ db[3].enhancedAddress = EnhancedAddressAt(Chicago.lat, Chicago.lng)
    /\ StoragePath(db[3].src) \in bucket
    /\ migrating = <<>>

\* A step in which the form calls uploadImage
CallsUploadImage == submitting = Null /\ submitting' /= Null

\* A step in which the form's uploadImage call settles
UploadSettles == submitting /= Null /\ submitting' = Null

\* The form holds a processed file, a title and a location
Complete ==
    /\ Present(form.processedFile)
    /\ form.title /= ""
    /\ Present(form.location)

\* C27: the form calls uploadImage only with a processed file, a non-empty
\* title and a location, which it passes on; whenever the three are there
\* and no submission is under way, submitting does call uploadImage,
\* whatever the enhanced address is (null included), and a missing enhanced
\* address is passed as undefined; when the upload succeeds, file,
\* processed file, title, location, enhanced address and preview are reset;
\* and loading is false after the call settled, fulfilled or rejected, and
\* after a submission that was turned down.
SubmissionNeedsNoAddress ==
    /\ [][/\ CallsUploadImage =>
                /\ Complete
                /\ submitting'.file = form.processedFile
                /\ submitting'.title = form.title
                /\ submitting'.location = form.location
                /\ submitting'.enhancedAddress
                     = IF form.enhancedAddress = Null THEN UndefinedObject
                       ELSE form.enhancedAddress
                /\ form'.loading
          /\ UploadSettles => ~form'.loading /\ uploaded'.status /= "pending"
          /\ UploadSettles /\ uploaded'.status = "fulfilled" =>
                /\ form'.file = JsNull
                /\ form'.processedFile = Null
                /\ form'.title = ""
                /\ form'.location = Null
                /\ form'.enhancedAddress = Null
                /\ form'.preview = JsNull]_vars
    /\ [](submitting = Null => ~form.loading)
    /\ [](Complete /\ submitting = Null => ENABLED (HandleSubmit /\ CallsUploadImage))

\* uploadImage has been called with a location whose address lookup gave
\* null: the enhanced address went as undefined
SubmissionNeedsNoAddressWitness ==
    /\ submitting /= Null
    /\ submitting.enhancedAddress = UndefinedObject
    /\ submitting.location = Chicago
    /\ form.enhancedAddress = Null
    /\ form.loading
    /\ lookups = <<>>

\* C28: the enhanced address the form passes to uploadImage is absent or is
\* what enrichment returns for exactly the coordinates of the location
\* passed with it, under every interleaving of file selections, location
\* requests, 'Change Location' clicks and completions of lookups.
SubmittedAddressMatchesLocation ==
    submitting /= Null =>
        \/ submitting.enhancedAddress = UndefinedObject
        \/ submitting.enhancedAddress
             = EnhancedAddressAt(submitting.location.lat, submitting.location.lng)

\* A step that is the console call console[level](...args)
IsConsoleCall(level, args) ==
    written' = Append(written, [level |-> level, args |-> args])

\* In the call just made, the function display d captured for the level ran
\* with the call's arguments before d's closure recorded the call
ReachedOriginalFirst(d, level, args) ==
    \E i, j \in 1..Len(ran') :
        /\ i < j
        /\ ran'[i].method = displays[d].original[level]
        /\ ran'[i].args = args
        /\ ran'[j].method /= HostMethod
        /\ Head(ran'[j].method) = d

\* C29: while a display is mounted, every console call reaches the method
\* that was installed before the display mounted, first and with the same
\* arguments, and the display records the call exactly once; once no display
\* is mounted, in whatever order they mounted and unmounted, the four console
\* methods are the host's original functions again.
ConsoleOverrideTemporary ==
    /\ [][\A level \in Levels, args \in Arguments :
            IsConsoleCall(level, args) =>
                \A d \in DOMAIN displays :
                    displays[d].mounted =>
                        /\ ReachedOriginalFirst(d, level, args)
                        /\ displays'[d].logs
                             = Append(LastLogs(displays[d].logs), LogEntry(level, args))]_vars
    /\ []((\A d \in DOMAIN displays : ~displays[d].mounted)
            => console = [level \in Levels |-> HostMethod])

====
